---- MODULE Spec2Model ----
(***************************************************************************)
(* A model of the GeoLocator browser extension: the gazetteer store        *)
(* (background/database.js), the candidate extraction and matching         *)
(* pipeline (geocoder: utils/constants.js, helpers: utils/mapManager.js)   *)
(* and the background orchestrator (background/background.js).             *)
(*                                                                         *)
(* Text is a sequence of one-character strings over a small alphabet.      *)
(* Every asynchronous function is cut at its awaits: one action per        *)
(* segment that runs without yielding to another message handler.          *)
(***************************************************************************)
EXTENDS Integers, Sequences, FiniteSets, TLC

(***************************************************************************)
(* Bounds of the model.                                                    *)
(***************************************************************************)
\* messages the background script receives in one run
MaxReq == 2
\* initialize() calls in one run of the initialization model
MaxInit == 2
\* operations applied to the store in one run of the store model
MaxStoreOps == 3
\* the number of tokens of a generated page text
MaxTokens == 3
\* the number of countries of the gazetteer with many countries
MaxCountries == 11
\* events delivered to the side panel by one handler run of the message model
MaxSends == 2
\* switchView calls in one run of the map handshake model
MaxSwitches == 3

(***************************************************************************)
(* Characters and strings.                                                 *)
(***************************************************************************)
UpperSeq ==
  << "A", "B", "C", "D", "E", "F", "G", "H", "I", "J", "K", "L", "M",
     "N", "O", "P", "Q", "R", "S", "T", "U", "V", "W", "X", "Y", "Z" >>
LowerSeq ==
  << "a", "b", "c", "d", "e", "f", "g", "h", "i", "j", "k", "l", "m",
     "n", "o", "p", "q", "r", "s", "t", "u", "v", "w", "x", "y", "z" >>
\* the regular expression classes [A-Z], [a-z], [a-zA-Z] and \s
UpperChars == {UpperSeq[i] : i \in 1..26}
LowerChars == {LowerSeq[i] : i \in 1..26}
SpaceChars == {" ", "\t", "\n"}
Letters == UpperChars \cup LowerChars

\* the lower-case letter of each upper-case letter
LowerOf == [c \in UpperChars |-> LowerSeq[CHOOSE i \in 1..26 : UpperSeq[i] = c]]

\* String.prototype.toLowerCase, one character
LowerChar(c) == IF c \in UpperChars THEN LowerOf[c] ELSE c

\* String.prototype.toLowerCase
ToLowerCase(s) == [i \in 1..Len(s) |-> LowerChar(s[i])]

\* the regular expression class \w
DigitChars == {"0", "1", "2", "3", "4", "5", "6", "7", "8", "9"}
IsWordChar(c) == c \in Letters \cup DigitChars \cup {"_"}

\* the character at 1-based position i, "" past either end
CharAt(text, i) == IF i >= 1 /\ i <= Len(text) THEN text[i] ELSE ""

\* the regular expression assertion \b just before position i
WordBoundary(text, i) ==
  IsWordChar(CharAt(text, i - 1)) # IsWordChar(CharAt(text, i))

\* the last position of the longest run of characters of class cls that
\* starts at i (i - 1 when there is none)
RECURSIVE RunEnd(_, _, _)
RunEnd(text, i, cls) ==
  IF CharAt(text, i) \in cls THEN RunEnd(text, i + 1, cls) ELSE i - 1

(***************************************************************************)
(* Stop words and false positives (format.js, geocoder.js).                *)
(***************************************************************************)
STOP_WORDS ==
  { <<"t", "h", "e">>, <<"a", "n", "d">>, <<"o", "r">>,
    <<"b", "u", "t">>, <<"i", "n">>, <<"o", "n">>,
    <<"a", "t">>, <<"t", "o">>, <<"f", "o", "r">>,
    <<"o", "f">>, <<"w", "i", "t", "h">>, <<"b", "y">>,
    <<"f", "r", "o", "m">>, <<"u", "p">>, <<"a", "b", "o", "u", "t">>,
    <<"i", "n", "t", "o">>, <<"t", "h", "r", "o", "u", "g", "h">>, <<"d", "u", "r", "i", "n", "g">>,
    <<"b", "e", "f", "o", "r", "e">>, <<"a", "f", "t", "e", "r">>, <<"a", "b", "o", "v", "e">>,
    <<"b", "e", "l", "o", "w">>, <<"b", "e", "t", "w", "e", "e", "n">>, <<"u", "n", "d", "e", "r">>,
    <<"a", "g", "a", "i", "n">>, <<"f", "u", "r", "t", "h", "e", "r">>, <<"t", "h", "e", "n">>,
    <<"o", "n", "c", "e">>, <<"j", "a", "n", "u", "a", "r", "y">>, <<"f", "e", "b", "r", "u", "a", "r", "y">>,
    <<"m", "a", "r", "c", "h">>, <<"a", "p", "r", "i", "l">>, <<"m", "a", "y">>,
    <<"j", "u", "n", "e">>, <<"j", "u", "l", "y">>, <<"a", "u", "g", "u", "s", "t">>,
    <<"s", "e", "p", "t", "e", "m", "b", "e", "r">>, <<"o", "c", "t", "o", "b", "e", "r">>, <<"n", "o", "v", "e", "m", "b", "e", "r">>,
    <<"d", "e", "c", "e", "m", "b", "e", "r">>, <<"m", "o", "n", "d", "a", "y">>, <<"t", "u", "e", "s", "d", "a", "y">>,
    <<"w", "e", "d", "n", "e", "s", "d", "a", "y">>, <<"t", "h", "u", "r", "s", "d", "a", "y">>, <<"f", "r", "i", "d", "a", "y">>,
    <<"s", "a", "t", "u", "r", "d", "a", "y">>, <<"s", "u", "n", "d", "a", "y">>, <<"m", "r">>,
    <<"m", "r", "s">>, <<"m", "s">>, <<"d", "r">>,
    <<"p", "r", "o", "f">>, <<"s", "i", "r">>, <<"l", "o", "r", "d">>,
    <<"l", "a", "d", "y">>, <<"s", "t", "r", "e", "e", "t">>, <<"a", "v", "e", "n", "u", "e">>,
    <<"r", "o", "a", "d">>, <<"l", "a", "n", "e">>, <<"d", "r", "i", "v", "e">>,
    <<"b", "o", "u", "l", "e", "v", "a", "r", "d">> }

falsePositives ==
  { <<"M", "o", "n", "d", "a", "y">>, <<"T", "u", "e", "s", "d", "a", "y">>, <<"W", "e", "d", "n", "e", "s", "d", "a", "y">>,
    <<"T", "h", "u", "r", "s", "d", "a", "y">>, <<"F", "r", "i", "d", "a", "y">>, <<"S", "a", "t", "u", "r", "d", "a", "y">>,
    <<"S", "u", "n", "d", "a", "y">>, <<"J", "a", "n", "u", "a", "r", "y">>, <<"F", "e", "b", "r", "u", "a", "r", "y">>,
    <<"M", "a", "r", "c", "h">>, <<"A", "p", "r", "i", "l">>, <<"M", "a", "y">>,
    <<"J", "u", "n", "e">>, <<"J", "u", "l", "y">>, <<"A", "u", "g", "u", "s", "t">>,
    <<"S", "e", "p", "t", "e", "m", "b", "e", "r">>, <<"O", "c", "t", "o", "b", "e", "r">>, <<"N", "o", "v", "e", "m", "b", "e", "r">>,
    <<"D", "e", "c", "e", "m", "b", "e", "r">>, <<"R", "e", "a", "d", "i", "n", "g">>, <<"B", "a", "t", "h">>,
    <<"N", "i", "c", "e">>, <<"M", "o", "b", "i", "l", "e">>, <<"C", "h", "i", "n", "a">>,
    <<"J", "o", "r", "d", "a", "n">>, <<"H", "o", "p", "e">>, <<"L", "i", "b", "e", "r", "t", "y">>,
    <<"A", "m", "e", "r", "i", "c", "a">>, <<"E", "u", "r", "o", "p", "e">>, <<"A", "s", "i", "a">>,
    <<"A", "f", "r", "i", "c", "a">>, <<"N", "o", "r", "t", "h">>, <<"S", "o", "u", "t", "h">>,
    <<"E", "a", "s", "t">>, <<"W", "e", "s", "t">>, <<"K", "i", "n", "g">>,
    <<"Q", "u", "e", "e", "n">>, <<"P", "r", "i", "n", "c", "e">>, <<"P", "r", "i", "n", "c", "e", "s", "s">>,
    <<"L", "o", "r", "d">>, <<"L", "a", "d", "y">>, <<"S", "a", "i", "n", "t">>,
    <<"R", "o", "m", "a", "n">>, <<"G", "r", "e", "e", "k">>, <<"E", "n", "g", "l", "i", "s", "h">>,
    <<"F", "r", "e", "n", "c", "h">>, <<"G", "e", "r", "m", "a", "n">>, <<"F", "i", "r", "s", "t">>,
    <<"S", "e", "c", "o", "n", "d">>, <<"T", "h", "i", "r", "d">>, <<"L", "a", "s", "t">>,
    <<"G", "r", "e", "a", "t">>, <<"L", "i", "t", "t", "l", "e">>, <<"N", "e", "w">>,
    <<"O", "l", "d">>, <<"E", "a", "r", "l", "y">>, <<"L", "a", "t", "e">>,
    <<"M", "o", "d", "e", "r", "n">>, <<"A", "n", "c", "i", "e", "n", "t">>, <<"T", "i", "m", "e">>,
    <<"D", "a", "t", "e">>, <<"P", "o", "p">>, <<"A", "n", "t", "h", "e", "m">>,
    <<"A", "l", "b", "a">> }

\* a variant of isStopWord that compares the word as it is written
isStopWord_exact(word) == word \in STOP_WORDS

isStopWord(word) == ToLowerCase(word) \in STOP_WORDS

\* a variant of CollapseSpaces that takes one character off each run
RECURSIVE CollapseSpaces_once(_)
CollapseSpaces_once(s) ==
  IF s = <<>> THEN <<>>
  ELSE IF Head(s) \in SpaceChars
         THEN LET e == RunEnd(s, 1, SpaceChars)
              IN  (IF e > 1 THEN SubSeq(s, 2, e) ELSE <<" ">>)
                    \o CollapseSpaces_once(SubSeq(s, e + 1, Len(s)))
         ELSE <<Head(s)>> \o CollapseSpaces_once(Tail(s))

\* normalizeText: lower case, runs of white space collapsed to one blank,
\* blanks at both ends removed; the characters of the model have no
\* diacritics, so stripping them removes nothing
RECURSIVE CollapseSpaces(_)
CollapseSpaces(s) ==
  IF s = <<>> THEN <<>>
  ELSE IF Head(s) \in SpaceChars
         THEN <<" ">> \o CollapseSpaces(SubSeq(s, RunEnd(s, 1, SpaceChars) + 1, Len(s)))
         ELSE <<Head(s)>> \o CollapseSpaces(Tail(s))

\* String.prototype.trim
RECURSIVE Trim(_)
Trim(s) ==
  IF s = <<>> THEN <<>>
  ELSE IF Head(s) \in SpaceChars THEN Trim(Tail(s))
  ELSE IF s[Len(s)] \in SpaceChars THEN Trim(SubSeq(s, 1, Len(s) - 1))
  ELSE s

normalizeText(text) == Trim(CollapseSpaces(ToLowerCase(text)))

isCommonFalsePositive(word) == word \in falsePositives

(***************************************************************************)
(* Candidate extraction (geocoder.js). A candidate's index is the 0-based  *)
(* offset of its match; qualifier <<>> stands for null.                    *)
(***************************************************************************)
\* [A-Z]cls+ at position i: the position of its last character, 0 if none
WordEnd(text, i, cls) ==
  IF CharAt(text, i) \in UpperChars /\ CharAt(text, i + 1) \in cls
    THEN RunEnd(text, i + 1, cls)
    ELSE 0

\* [A-Z]cls+(?:\s+[A-Z]cls+){0,max-1} at position i, matched greedily: the
\* end positions of the words, in order
RECURSIVE WordEnds(_, _, _, _)
WordEnds(text, i, cls, max) ==
  IF max = 0 \/ WordEnd(text, i, cls) = 0
    THEN <<>>
    ELSE LET e == WordEnd(text, i, cls)
             j == RunEnd(text, e + 1, SpaceChars) + 1
         IN  <<e>> \o (IF j > e + 1 THEN WordEnds(text, j, cls, max - 1) ELSE <<>>)

\* the trailing \b: the longest prefix of the words after which a word
\* boundary holds (the regular expression backtracks to it); 0 if none
LastBoundary(text, ends) ==
  LET ok == {k \in 1..Len(ends) : ~IsWordChar(CharAt(text, ends[k] + 1))}
  IN  IF ok = {} THEN 0 ELSE CHOOSE k \in ok : \A m \in ok : m <= k

NoMatch == [ok |-> FALSE]

\* pattern1 anchored at position i
Pattern1At(text, i) ==
  LET ends1 == WordEnds(text, i, Letters, Len(text))
  IN  IF ~WordBoundary(text, i) \/ ends1 = <<>> THEN NoMatch
      ELSE LET e1 == ends1[Len(ends1)]
               q == RunEnd(text, e1 + 2, SpaceChars) + 1
               ends2 == WordEnds(text, q, Letters, Len(text))
               k == LastBoundary(text, ends2)
           IN  IF CharAt(text, e1 + 1) # "," \/ k = 0 THEN NoMatch
               ELSE [ok |-> TRUE, index |-> i - 1, end |-> ends2[k],
                     g1 |-> SubSeq(text, i, e1), g2 |-> SubSeq(text, q, ends2[k])]

\* pattern (of extractCapitalizedWords) anchored at position i
Pattern2At(text, i) ==
  LET ends == WordEnds(text, i, LowerChars, 3)
      k == LastBoundary(text, ends)
  IN  IF ~WordBoundary(text, i) \/ k = 0 THEN NoMatch
      ELSE [ok |-> TRUE, index |-> i - 1, end |-> ends[k],
            g1 |-> SubSeq(text, i, ends[k])]

RECURSIVE extractCandidatesFrom(_, _)
extractCandidatesFrom(text, pos) ==
  IF pos > Len(text) THEN <<>>
  ELSE LET m == Pattern1At(text, pos)
       IN  IF ~m.ok THEN extractCandidatesFrom(text, pos + 1)
           ELSE (IF isStopWord(m.g1) THEN <<>>
                 ELSE << [name |-> m.g1, qualifier |-> m.g2,
                          pattern |-> "city-qualifier", confidence |-> "high",
                          index |-> m.index] >>)
                \o extractCandidatesFrom(text, m.end + 1)

extractCandidates(text) == extractCandidatesFrom(text, 1)

RECURSIVE extractCapitalizedWordsFrom(_, _, _)
extractCapitalizedWordsFrom(text, pos, seen) ==
  IF pos > Len(text) THEN <<>>
  ELSE LET m == Pattern2At(text, pos)
       IN  IF ~m.ok THEN extractCapitalizedWordsFrom(text, pos + 1, seen)
           ELSE IF \/ ToLowerCase(m.g1) \in seen
                   \/ isStopWord(m.g1) \/ isCommonFalsePositive(m.g1)
                   \/ CharAt(text, m.end + 1) \in LowerChars
                  THEN extractCapitalizedWordsFrom(text, m.end + 1, seen)
                  ELSE << [name |-> m.g1, qualifier |-> <<>>,
                           pattern |-> "capitalized-word", confidence |-> "medium",
                           index |-> m.index] >>
                       \o extractCapitalizedWordsFrom(text, m.end + 1,
                                                      seen \cup {ToLowerCase(m.g1)})

extractCapitalizedWords(text) == extractCapitalizedWordsFrom(text, 1, {})

\* geocodeText, lines 158-167: the candidates of both patterns, pattern 1 first
allCandidates(text) == extractCandidates(text) \o extractCapitalizedWords(text)

(***************************************************************************)
(* The data of the model: country codes, the bundled dataset               *)
(* (data/cities15000.json) and what the GeoNames server holds per country. *)
(* A record keeps the fields the pipeline reads.                           *)
(***************************************************************************)
FR == <<"F", "R">>
JP == <<"J", "P">>
Codes == {FR, JP}

\* COUNTRY_NAMES, the entries for the codes of the model
COUNTRY_NAMES ==
  (FR :> <<"F", "r", "a", "n", "c", "e">>) @@ (JP :> <<"J", "a", "p", "a", "n">>)

getCountryName(countryCode) ==
  IF countryCode \in DOMAIN COUNTRY_NAMES THEN COUNTRY_NAMES[countryCode]
  ELSE countryCode

City(id, ascii, country, admin1, pop) ==
  [geonameId |-> id, ascii |-> ascii, country |-> country, admin1 |-> admin1,
   pop |-> pop]

\* "Pa": a city of France, also a hamlet of France and a town of Japan;
\* "Ta": a city of Japan
PaFR == City(1, <<"p", "a">>, FR, <<"1", "1">>, 2)
TaJP == City(2, <<"t", "a">>, JP, <<"4", "0">>, 3)
PaFR2 == City(3, <<"p", "a">>, FR, <<"8", "4">>, 1)
PaJP == City(4, <<"p", "a">>, JP, <<"1", "3">>, 3)

\* the bundled dataset: cities of population 15000 and more
cities15000 == <<PaFR, TaJP>>

\* the populated places of <countryCode>.zip, as parseGeoNamesData returns them
GeoNamesDump(countryCode) ==
  IF countryCode = FR THEN <<PaFR, PaFR2>> ELSE <<TaJP, PaJP>>

\* the pages a tab can show: the extracted text and the url
Page1 == [text |-> <<"P", "a", ",", " ", "F", "r", ".", " ", "T", "a">>, url |-> "u1"]
Page2 == [text |-> <<"T", "a">>, url |-> "u2"]
Pages == {Page1, Page2}

\* what a PAGE_TEXT message can carry: the text of a page, or an empty text
EmptyPage == [text |-> <<>>, url |-> "u0"]
Sent == Pages \cup {EmptyPage}

\* the candidates of the texts the orchestrator handles, computed once per text
PageTexts == {<<>>} \cup {p.text : p \in Pages}
PageCandidates == [text \in PageTexts |-> allCandidates(text)]
candidatesOf(text) ==
  IF text \in PageTexts THEN PageCandidates[text] ELSE allCandidates(text)

(***************************************************************************)
(* The store: the object stores of the IndexedDB database 'GeoNamesDB'.    *)
(* An object store is the set of its records, one per key.                 *)
(***************************************************************************)
VARIABLES
  cities,         \* object store 'cities', keyPath geonameId
  metadata,       \* object store 'metadata', keyPath key
  countryData,    \* object store 'countryData', keyPath geonameId
  downloadCache,  \* object store 'downloadCache', keyPath countryCode
  db,             \* global db of background.js: the GeoNamesDB object it refers
                  \* to (0 for null)
  handles         \* per GeoNamesDB object: not created, opening or ready

storeVars == <<cities, metadata, countryData, downloadCache>>

\* GeoNamesDB.isReady of the object the global db refers to
dbIsReady == db # 0 /\ handles[db] = "ready"

\* IDBIndex.getAll: the records in ascending order of primary key
RECURSIVE SortById(_)
SortById(recs) ==
  IF recs = {} THEN <<>>
  ELSE LET r == CHOOSE x \in recs : \A y \in recs : x.geonameId <= y.geonameId
       IN  <<r>> \o SortById(recs \ {r})

\* a variant of PutAll that adds the records and replaces none
PutAll_adds(store, list) == store \cup {list[n] : n \in 1..Len(list)}

\* IDBObjectStore.put of the records of a list, in order
RECURSIVE PutAll(_, _)
PutAll(store, list) ==
  IF list = <<>> THEN store
  ELSE PutAll({r \in store : r.geonameId # Head(list).geonameId} \cup {Head(list)},
              Tail(list))

\* a variant of searchByName that reads the index of both partitions
searchByName_bothPartitions(name) ==
  SortById({r \in cities \cup countryData : r.ascii = ToLowerCase(name)})

searchByName(name) ==
  SortById({r \in cities : r.ascii = ToLowerCase(name)})

searchCountryData(name) ==
  SortById({r \in countryData : r.ascii = ToLowerCase(name)})

\* deduplicate by geonameId, keeping the first occurrence
RECURSIVE DedupById(_, _)
DedupById(list, seen) ==
  IF list = <<>> THEN <<>>
  ELSE IF Head(list).geonameId \in seen THEN DedupById(Tail(list), seen)
       ELSE <<Head(list)>> \o DedupById(Tail(list), seen \cup {Head(list).geonameId})

\* a variant of searchAllSources that joins the two results as they are
searchAllSources_joined(name) == searchByName(name) \o searchCountryData(name)

searchAllSources(name) ==
  DedupById(searchByName(name) \o searchCountryData(name), {})

\* a variant of isCountryDownloaded that trusts the download record
isCountryDownloaded_byRecord(countryCode) ==
  \E e \in downloadCache : e.countryCode = countryCode

isCountryDownloaded(countryCode) ==
  IF ~dbIsReady THEN FALSE
  ELSE IF ~\E e \in downloadCache : e.countryCode = countryCode THEN FALSE
  ELSE Cardinality({r \in countryData : r.country = countryCode}) # 0

\* the two object stores after loadCountryData's transaction commits
loadCountryData_countryData(countryCode, list) == PutAll(countryData, list)

loadCountryData_downloadCache(countryCode, list) ==
  {e \in downloadCache : e.countryCode # countryCode}
    \cup {[countryCode |-> countryCode, cityCount |-> Len(list)]}

(***************************************************************************)
(* Matching (geocoder.js).                                                 *)
(***************************************************************************)
\* a variant of filterByQualifier that falls back to the unqualified matches
filterByQualifier_fallback(matches, qualifier) ==
  LET normalizedQualifier == ToLowerCase(qualifier)
      keep(match) ==
        \/ ToLowerCase(match.country) = normalizedQualifier
        \/ ToLowerCase(getCountryName(match.country)) = normalizedQualifier
        \/ match.admin1 # <<>> /\ ToLowerCase(match.admin1) = normalizedQualifier
      kept == SelectSeq(matches, keep)
  IN  IF kept = <<>> THEN matches ELSE kept

filterByQualifier(matches, qualifier) ==
  LET normalizedQualifier == ToLowerCase(qualifier)
      keep(match) ==
        \/ ToLowerCase(match.country) = normalizedQualifier
        \/ ToLowerCase(getCountryName(match.country)) = normalizedQualifier
        \/ \E code \in DOMAIN COUNTRY_NAMES :
             /\ ToLowerCase(COUNTRY_NAMES[code]) = normalizedQualifier
             /\ code = match.country
        \/ match.admin1 # <<>> /\ ToLowerCase(match.admin1) = normalizedQualifier
  IN  SelectSeq(matches, keep)

\* a variant of InsertByPop that puts a record before those of equal population
RECURSIVE InsertByPop_unstable(_, _)
InsertByPop_unstable(r, sorted) ==
  IF sorted = <<>> THEN <<r>>
  ELSE IF Head(sorted).pop > r.pop
         THEN <<Head(sorted)>> \o InsertByPop_unstable(r, Tail(sorted))
         ELSE <<r>> \o sorted

\* Array.prototype.sort with (a, b) => (b.pop || 0) - (a.pop || 0): stable
RECURSIVE InsertByPop(_, _)
InsertByPop(r, sorted) ==
  IF sorted = <<>> THEN <<r>>
  ELSE IF Head(sorted).pop >= r.pop THEN <<Head(sorted)>> \o InsertByPop(r, Tail(sorted))
       ELSE <<r>> \o sorted

RECURSIVE SortByPop(_)
SortByPop(list) ==
  IF list = <<>> THEN <<>>
  ELSE InsertByPop(list[Len(list)], SortByPop(SubSeq(list, 1, Len(list) - 1)))

\* filterCountries: the list of allowed codes, <<>> also standing for null
FilterByCountries(cityMatches, filterCountries) ==
  IF Len(filterCountries) > 0
    THEN LET countrySet == {filterCountries[i] : i \in 1..Len(filterCountries)}
             has(match) == match.country \in countrySet
         IN  SelectSeq(cityMatches, has)
    ELSE cityMatches

findMatches(candidate, useCountryDataOnly, filterCountries) ==
  LET found == IF useCountryDataOnly THEN searchCountryData(candidate.name)
               ELSE searchAllSources(candidate.name)
      cityMatches == FilterByCountries(found, filterCountries)
  IN  IF cityMatches = <<>> THEN <<>>
      ELSE IF candidate.qualifier # <<>>
             THEN filterByQualifier(cityMatches, candidate.qualifier)
             ELSE SubSeq(SortByPop(cityMatches), 1, 1)

\* a variant of matchCandidates that selects the most populous match
RECURSIVE matchCandidates_populous(_, _, _)
matchCandidates_populous(candidates, useCountryDataOnly, filterCountries) ==
  IF candidates = <<>> THEN <<>>
  ELSE LET matches == findMatches(Head(candidates), useCountryDataOnly, filterCountries)
       IN  (IF Len(matches) > 0 THEN <<SortByPop(matches)[1]>> ELSE <<>>)
           \o matchCandidates_populous(Tail(candidates), useCountryDataOnly,
                                       filterCountries)

RECURSIVE matchCandidates(_, _, _)
matchCandidates(candidates, useCountryDataOnly, filterCountries) ==
  IF candidates = <<>> THEN <<>>
  ELSE LET matches == findMatches(Head(candidates), useCountryDataOnly, filterCountries)
       IN  (IF Len(matches) > 0 THEN <<matches[1]>> ELSE <<>>)
           \o matchCandidates(Tail(candidates), useCountryDataOnly, filterCountries)

\* a variant of deduplicateBy that keeps every item
deduplicateBy_none(array) == array

deduplicateBy(array) == DedupById(array, {})

\* geocodeText with detectionOnly = false: the locations
geocodeText_locations(text, useCountryDataOnly, filterCountries) ==
  deduplicateBy(matchCandidates(candidatesOf(text), useCountryDataOnly,
                                filterCountries))

(***************************************************************************)
(* Country detection (geocoder.js, detection-only mode).                   *)
(***************************************************************************)
\* the number of records of a list with the given country code
RECURSIVE CountCountry(_, _)
CountCountry(list, code) ==
  IF list = <<>> THEN 0
  ELSE (IF Head(list).country = code THEN 1 ELSE 0) + CountCountry(Tail(list), code)

\* a variant of countryCounts that searches both partitions
RECURSIVE countryCounts_allSources(_, _)
countryCounts_allSources(candidates, code) ==
  IF candidates = <<>> THEN 0
  ELSE CountCountry(searchAllSources(Head(candidates).name), code)
       + countryCounts_allSources(Tail(candidates), code)

\* countryCounts.get(code) after the loop over the candidates
RECURSIVE countryCounts(_, _)
countryCounts(candidates, code) ==
  IF candidates = <<>> THEN 0
  ELSE CountCountry(searchByName(Head(candidates).name), code)
       + countryCounts(Tail(candidates), code)

\* a.localeCompare(b) < 0 for strings of upper-case letters
CharRank(c) == CHOOSE i \in 1..26 : UpperSeq[i] = c
RECURSIVE CodeBefore(_, _)
CodeBefore(a, b) ==
  IF b = <<>> THEN FALSE
  ELSE IF a = <<>> THEN TRUE
  ELSE IF Head(a) # Head(b) THEN CharRank(Head(a)) < CharRank(Head(b))
  ELSE CodeBefore(Tail(a), Tail(b))

\* a variant of the comparator that orders by code alone
EntryBefore_byCode(a, b) == CodeBefore(a.code, b.code)

\* the comparator of the sort: count descending, then code ascending
EntryBefore(a, b) ==
  IF b.count # a.count THEN a.count > b.count ELSE CodeBefore(a.code, b.code)

RECURSIVE SortEntries(_)
SortEntries(entries) ==
  IF entries = {} THEN <<>>
  ELSE LET e == CHOOSE x \in entries : \A y \in entries \ {x} : EntryBefore(x, y)
       IN  <<e>> \o SortEntries(entries \ {e})

FirstN(list, n) == SubSeq(list, 1, IF Len(list) < n THEN Len(list) ELSE n)

detectCountriesFromCandidates(candidates) ==
  LET found == {r.country : r \in cities}
      entries == {[code |-> c, count |-> countryCounts(candidates, c)] :
                    c \in {x \in found : countryCounts(candidates, x) > 0}}
  IN  FirstN(SortEntries(entries), 10)

\* geocodeText with detectionOnly = true: the detected countries
geocodeText_detectedCountries(text) ==
  IF candidatesOf(text) = <<>> THEN <<>>
  ELSE detectCountriesFromCandidates(candidatesOf(text))

getCountrySelectionOptions(detectedCountries) ==
  [n \in 1..Len(detectedCountries) |->
     [countryCode |-> detectedCountries[n].code,
      countryName |-> getCountryName(detectedCountries[n].code),
      hitCount |-> detectedCountries[n].count,
      isDownloaded |-> isCountryDownloaded(detectedCountries[n].code)]]

(***************************************************************************)
(* The background script (background.js): its globals, the messages it     *)
(* receives and, per message, the asynchronous handler that serves it.     *)
(***************************************************************************)
VARIABLES
  isInitialized,      \* global isInitialized
  currentPageText,    \* global currentPageText (<<>> for null)
  currentPageUrl,     \* global currentPageUrl ("null" for null)
  selectedCountries,  \* global selectedCountries
  reqs,               \* per received message: its handler's position and locals
  trace,              \* per received message: the events its handler sent to the
                      \* side panel and the fetches and commits it made, in order
  resp,               \* per received message: the response of addMessageListener
  calls,              \* per call of initialize(): its position and what it did
  ret,                \* the last operation made on the store directly, with its result
  nops                \* the number of such operations

\* the side panel and the page of its map iframe
VARIABLES
  panel,      \* globals of sidepanel.js and the src of the iframe element
  mapPage,    \* the document of the iframe and the globals of map.js
  toMap,      \* postMessage events on their way to the iframe's window
  toParent,   \* postMessage events on their way to the side panel
  switches,   \* the position of each call of switchView
  mapLog      \* the messages posted and handled, in order

mapVars == <<panel, mapPage, toMap, toParent, switches, mapLog>>

\* the side panel as init() leaves it: list view, no map page loaded
NoMap ==
  /\ panel = [currentLocations |-> <<>>, currentView |-> "list",
              mapInitialized |-> FALSE, mapIframeLoaded |-> FALSE, src |-> ""]
  /\ mapPage = [stage |-> "blank", L |-> FALSE, map |-> FALSE, isInitialized |-> FALSE]
  /\ toMap = <<>>
  /\ toParent = <<>>
  /\ switches = [s \in 1..MaxSwitches |-> "none"]
  /\ mapLog = <<>>

orchVars == <<isInitialized, currentPageText, currentPageUrl, selectedCountries,
              reqs, trace, resp>>

initVars == <<db, handles, calls>>

queryVars == <<ret, nops>>

\* what the handlers of messages leave alone: the initialization, which has
\* completed when they run, and the record of the direct store operations
settled == <<isInitialized, initVars, queryVars>>

\* the countryCodes a DOWNLOAD_COUNTRIES message can carry
Selections == {<<>>, <<FR>>, <<FR, JP>>}

\* the messages of a run, numbered in order of arrival; each is served by
\* its own run of the async handler of addMessageListener
ReqIds == 1..MaxReq

NoReq ==
  [type |-> "none", pc |-> "none", text |-> <<>>, url |-> "null", codes |-> <<>>,
   k |-> 0, toDownload |-> <<>>, i |-> 0, locations |-> <<>>]

Arrived == {r \in ReqIds : reqs[r].type # "none"}
NextId == Cardinality(Arrived) + 1

\* handler r is at position pc
At(r, pc) == reqs[r].pc = pc

\* a message arrives
Arrival ==
  /\ isInitialized
  /\ NextId <= MaxReq

Send(r, events) ==
  trace' = [trace EXCEPT ![r] = @ \o events]

Ev(type) == [ev |-> type]

\* handlePageText up to its first await (lines 458-470)
handlePageText_start(r, type, text, url) ==
  /\ currentPageText' = text
  /\ currentPageUrl' = url
  /\ reqs' = [reqs EXCEPT ![r] = [NoReq EXCEPT !.type = type, !.pc = "detect",
                                                !.text = text, !.url = url]]
  /\ Send(r, << [ev |-> "GEOCODE_PROGRESS", status |-> "detecting"] >>)

\* message PAGE_TEXT (lines 92-94)
ReceivePageText ==
  /\ UNCHANGED mapVars
  /\ Arrival
  /\ \E p \in Sent : handlePageText_start(NextId, "PAGE_TEXT", p.text, p.url)
  /\ UNCHANGED <<storeVars, settled, selectedCountries, resp>>

\* message START_GEOCODING: startGeocoding up to the request to the content
\* script (lines 96-98, 117-156)
ReceiveStartGeocoding ==
  /\ UNCHANGED mapVars
  /\ Arrival
  /\ reqs' = [reqs EXCEPT ![NextId] = [NoReq EXCEPT !.type = "START_GEOCODING",
                                                     !.pc = "extract"]]
  /\ Send(NextId, << [ev |-> "GEOCODE_PROGRESS", status |-> "extracting"] >>)
  /\ UNCHANGED <<storeVars, settled, currentPageText, currentPageUrl,
                 selectedCountries, resp>>

\* startGeocoding after the content script answered (lines 158-171): no tab,
\* a page that cannot be scanned or an empty text is an error, otherwise
\* handlePageText runs on the extracted text
Extract(r) ==
  /\ UNCHANGED mapVars
  /\ At(r, "extract")
  /\ \/ /\ \E p \in Pages : handlePageText_start(r, "START_GEOCODING", p.text, p.url)
        /\ UNCHANGED resp
     \/ /\ reqs' = [reqs EXCEPT ![r].pc = "done"]
        /\ Send(r, << Ev("GEOCODE_ERROR") >>)
        /\ resp' = [resp EXCEPT ![r] = "failure"]
        /\ UNCHANGED <<currentPageText, currentPageUrl>>
  /\ UNCHANGED <<storeVars, settled, selectedCountries>>

\* a variant of Detect that goes on to the full scan by itself
Detect_proceeds(r) ==
  /\ UNCHANGED mapVars
  /\ At(r, "detect")
  /\ LET detectedCountries == geocodeText_detectedCountries(reqs[r].text)
     IN  Send(r, << [ev |-> "COUNTRY_DETECTION",
                     detectedCountries |-> detectedCountries,
                     countryOptions |-> getCountrySelectionOptions(detectedCountries),
                     url |-> reqs[r].url] >>)
  /\ reqs' = [reqs EXCEPT ![r].pc = "scan"]
  /\ UNCHANGED <<storeVars, settled, currentPageText, currentPageUrl,
                 selectedCountries, resp>>

\* handlePageText, phase 1 (lines 472-488): detection, the options, the event
Detect(r) ==
  /\ UNCHANGED mapVars
  /\ At(r, "detect")
  /\ LET detectedCountries == geocodeText_detectedCountries(reqs[r].text)
     IN  Send(r, << [ev |-> "COUNTRY_DETECTION",
                     detectedCountries |-> detectedCountries,
                     countryOptions |-> getCountrySelectionOptions(detectedCountries),
                     url |-> reqs[r].url] >>)
  /\ reqs' = [reqs EXCEPT ![r].pc = "done"]
  /\ resp' = [resp EXCEPT ![r] = "success"]
  /\ UNCHANGED <<storeVars, settled, currentPageText, currentPageUrl,
                 selectedCountries>>

\* message DOWNLOAD_COUNTRIES: handleCountryDownload up to its first await
\* (lines 104-106, 199-208)
ReceiveDownloadCountries ==
  /\ UNCHANGED mapVars
  /\ Arrival
  /\ \E countryCodes \in Selections :
       /\ selectedCountries' = countryCodes
       /\ reqs' = [reqs EXCEPT ![NextId] =
                     [NoReq EXCEPT !.type = "DOWNLOAD_COUNTRIES",
                                   !.pc = IF countryCodes = <<>> THEN "loop" ELSE "check",
                                   !.codes = countryCodes, !.k = 1, !.i = 1]]
  /\ UNCHANGED <<storeVars, settled, currentPageText, currentPageUrl,
                 trace, resp>>

\* a variant of CheckDownloaded that puts every selected country on the list
CheckDownloaded_all(r) ==
  /\ UNCHANGED mapVars
  /\ At(r, "check")
  /\ reqs' = [reqs EXCEPT
                ![r].toDownload = Append(@, reqs[r].codes[reqs[r].k]),
                ![r].k = @ + 1,
                ![r].pc = IF reqs[r].k = Len(reqs[r].codes) THEN "loop" ELSE "check"]
  /\ UNCHANGED <<storeVars, settled, currentPageText, currentPageUrl,
                 selectedCountries, trace, resp>>

\* one iteration of the loop that determines toDownload (lines 207-212)
CheckDownloaded(r) ==
  /\ UNCHANGED mapVars
  /\ At(r, "check")
  /\ LET code == reqs[r].codes[reqs[r].k]
     IN  reqs' = [reqs EXCEPT
                    ![r].toDownload = IF isCountryDownloaded(code) THEN @
                                      ELSE Append(@, code),
                    ![r].k = @ + 1,
                    ![r].pc = IF reqs[r].k = Len(reqs[r].codes) THEN "loop" ELSE "check"]
  /\ UNCHANGED <<storeVars, settled, currentPageText, currentPageUrl,
                 selectedCountries, trace, resp>>

\* a variant of ProgressThenFetch that numbers the downloads from 0
ProgressThenFetch_fromZero(countryCode, current, total) ==
  << [ev |-> "DOWNLOAD_PROGRESS", countryCode |-> countryCode,
      current |-> current - 1, total |-> total],
     [ev |-> "fetch", countryCode |-> countryCode] >>

\* the events of one iteration of the download loop up to the fetch
\* (lines 220-230, 265): the progress event, then the request to the server
ProgressThenFetch(countryCode, current, total) ==
  << [ev |-> "DOWNLOAD_PROGRESS", countryCode |-> countryCode,
      current |-> current, total |-> total],
     [ev |-> "fetch", countryCode |-> countryCode] >>

StartDownload(r) ==
  /\ UNCHANGED mapVars
  /\ At(r, "loop")
  /\ reqs[r].i <= Len(reqs[r].toDownload)
  /\ Send(r, ProgressThenFetch(reqs[r].toDownload[reqs[r].i], reqs[r].i,
                               Len(reqs[r].toDownload)))
  /\ reqs' = [reqs EXCEPT ![r].pc = "download"]
  /\ UNCHANGED <<storeVars, settled, currentPageText, currentPageUrl,
                 selectedCountries, resp>>

\* a variant of DownloadFailed that reports the error and goes on with the
\* next country of the batch
DownloadFailed_continues(r) ==
  /\ UNCHANGED mapVars
  /\ At(r, "download")
  /\ Send(r, << Ev("DOWNLOAD_ERROR") >>)
  /\ reqs' = [reqs EXCEPT ![r].pc = "loop", ![r].i = @ + 1]
  /\ UNCHANGED <<storeVars, settled, currentPageText, currentPageUrl,
                 selectedCountries, resp>>

\* a variant of DownloadFailed that removes what the batch has stored so far
DownloadFailed_rollsBack(r) ==
  /\ UNCHANGED mapVars
  /\ At(r, "download")
  /\ LET stored == {reqs[r].toDownload[n] : n \in 1..(reqs[r].i - 1)}
     IN  /\ countryData' = {c \in countryData : c.country \notin stored}
         /\ downloadCache' = {e \in downloadCache : e.countryCode \notin stored}
  /\ Send(r, << Ev("DOWNLOAD_ERROR") >>)
  /\ reqs' = [reqs EXCEPT ![r].pc = "done"]
  /\ resp' = [resp EXCEPT ![r] = "failure"]
  /\ UNCHANGED <<cities, metadata, settled, currentPageText, currentPageUrl,
                 selectedCountries>>

\* downloadCountryData failed (lines 266-268, 290-293) and the catch of
\* handleCountryDownload (lines 244-252)
DownloadFailed(r) ==
  /\ UNCHANGED mapVars
  /\ At(r, "download")
  /\ Send(r, << Ev("DOWNLOAD_ERROR") >>)
  /\ reqs' = [reqs EXCEPT ![r].pc = "done"]
  /\ resp' = [resp EXCEPT ![r] = "failure"]
  /\ UNCHANGED <<storeVars, settled, currentPageText, currentPageUrl,
                 selectedCountries>>

\* downloadCountryData succeeded (lines 271-289): the records are committed,
\* the loop goes on
DownloadSucceeded(r) ==
  /\ UNCHANGED mapVars
  /\ At(r, "download")
  /\ LET code == reqs[r].toDownload[reqs[r].i]
         list == GeoNamesDump(code)
     IN  /\ countryData' = loadCountryData_countryData(code, list)
         /\ downloadCache' = loadCountryData_downloadCache(code, list)
         /\ Send(r, << [ev |-> "commit", countryCode |-> code, records |-> list] >>)
  /\ reqs' = [reqs EXCEPT ![r].pc = "loop", ![r].i = @ + 1]
  /\ UNCHANGED <<cities, metadata, settled, currentPageText, currentPageUrl,
                 selectedCountries, resp>>

\* after the loop (lines 233-241): DOWNLOAD_COMPLETE, then performFullScan up
\* to its first await (line 509)
DownloadComplete(r) ==
  /\ UNCHANGED mapVars
  /\ At(r, "loop")
  /\ reqs[r].i > Len(reqs[r].toDownload)
  /\ Send(r, << [ev |-> "DOWNLOAD_COMPLETE", count |-> Len(reqs[r].toDownload),
                 selected |-> Len(selectedCountries)] >>)
  /\ reqs' = [reqs EXCEPT ![r].pc = "scan"]
  /\ UNCHANGED <<storeVars, settled, currentPageText, currentPageUrl,
                 selectedCountries, resp>>

\* performFullScan when the store fails under getCountryDataCount: its catch
\* (lines 537-545), then the catch of handleCountryDownload (lines 244-252)
FullScanFailed(r) ==
  /\ UNCHANGED mapVars
  /\ At(r, "scan")
  /\ Send(r, << Ev("GEOCODE_ERROR"), Ev("DOWNLOAD_ERROR") >>)
  /\ reqs' = [reqs EXCEPT ![r].pc = "done"]
  /\ resp' = [resp EXCEPT ![r] = "failure"]
  /\ UNCHANGED <<storeVars, settled, currentPageText, currentPageUrl,
                 selectedCountries>>

\* a variant of FullScanMatch that scans a text freshly extracted from a page
FullScanMatch_fresh(r) ==
  /\ UNCHANGED mapVars
  /\ At(r, "scan")
  /\ Send(r, << [ev |-> "GEOCODE_PROGRESS", status |-> "scanning"] >>)
  /\ \E p \in Pages :
       reqs' = [reqs EXCEPT
                  ![r].text = p.text,
                  ![r].locations = geocodeText_locations(p.text, TRUE,
                                                         selectedCountries),
                  ![r].pc = "emit"]
  /\ UNCHANGED <<storeVars, settled, currentPageText, currentPageUrl,
                 selectedCountries, resp>>

\* performFullScan, the progress event and phase 2 (lines 512-524):
\* geocodeText on the stored text, restricted to the selected countries;
\* the handler keeps the text it passed to geocodeText
FullScanMatch(r) ==
  /\ UNCHANGED mapVars
  /\ At(r, "scan")
  /\ Send(r, << [ev |-> "GEOCODE_PROGRESS", status |-> "scanning"] >>)
  /\ reqs' = [reqs EXCEPT
                ![r].text = currentPageText,
                ![r].locations = geocodeText_locations(currentPageText, TRUE,
                                                       selectedCountries),
                ![r].pc = "emit"]
  /\ UNCHANGED <<storeVars, settled, currentPageText, currentPageUrl,
                 selectedCountries, resp>>

\* performFullScan, the results (lines 528-536), and the return of
\* handleCountryDownload (line 243)
FullScanResults(r) ==
  /\ UNCHANGED mapVars
  /\ At(r, "emit")
  /\ Send(r, << [ev |-> "GEOCODE_RESULTS", locations |-> reqs[r].locations,
                 url |-> currentPageUrl,
                 selectedCountries |-> selectedCountries] >>)
  /\ reqs' = [reqs EXCEPT ![r].pc = "done"]
  /\ resp' = [resp EXCEPT ![r] = "success"]
  /\ UNCHANGED <<storeVars, settled, currentPageText, currentPageUrl,
                 selectedCountries>>

\* the calls of initialize() of a run, each creating at most one GeoNamesDB
\* object, which carries the number of its call
Calls == 1..MaxInit

NoCall == [pc |-> "idle", loaded |-> FALSE]

NoRet == [op |-> "none"]

\* what earlier sessions can have left in the store: per country nothing, or
\* a download of its places
Earlier == [Codes -> {"none", "places"}]

SeqToSet(list) == {list[n] : n \in 1..Len(list)}

\* the state once the service worker has started and initialize() has
\* completed: the bundled dataset loaded, the downloads of earlier sessions in
\* the store, the globals at their initial values, no message received
Init ==
  /\ NoMap
  /\ cities = SeqToSet(cities15000)
  /\ metadata = {[key |-> "citiesLoaded", count |-> Len(cities15000)]}
  /\ \E earlier \in Earlier :
       /\ countryData =
            UNION {SeqToSet(GeoNamesDump(c)) : c \in {x \in Codes : earlier[x] = "places"}}
       /\ downloadCache =
            {[countryCode |-> c, cityCount |-> Len(GeoNamesDump(c))] :
               c \in {x \in Codes : earlier[x] = "places"}}
  /\ isInitialized = TRUE
  /\ db = 1
  /\ handles = [h \in Calls |-> IF h = 1 THEN "ready" ELSE "none"]
  /\ calls = [c \in Calls |-> IF c = 1 THEN [NoCall EXCEPT !.pc = "returned"] ELSE NoCall]
  /\ ret = NoRet
  /\ nops = 0
  /\ currentPageText = <<>>
  /\ currentPageUrl = "null"
  /\ selectedCountries = <<>>
  /\ reqs = [r \in ReqIds |-> NoReq]
  /\ trace = [r \in ReqIds |-> <<>>]
  /\ resp = [r \in ReqIds |-> "none"]

Next ==
  \/ ReceivePageText
  \/ ReceiveStartGeocoding
  \/ ReceiveDownloadCountries
  \/ \E r \in ReqIds : Extract(r)
  \/ \E r \in ReqIds : Detect(r)
  \/ \E r \in ReqIds : CheckDownloaded(r)
  \/ \E r \in ReqIds : StartDownload(r)
  \/ \E r \in ReqIds : DownloadFailed(r)
  \/ \E r \in ReqIds : DownloadSucceeded(r)
  \/ \E r \in ReqIds : DownloadComplete(r)
  \/ \E r \in ReqIds : FullScanFailed(r)
  \/ \E r \in ReqIds : FullScanMatch(r)
  \/ \E r \in ReqIds : FullScanResults(r)

vars == <<storeVars, orchVars, initVars, queryVars, mapVars>>

Spec == Init /\ [][Next]_vars

(***************************************************************************)
(* Properties of the orchestrator, read off the traces of the handlers.    *)
(***************************************************************************)
\* the positions of the entries of one kind in the trace of message r
Positions(r, type) == {n \in 1..Len(trace[r]) : trace[r][n].ev = type}

\* the fetches of handler r that were answered without a commit
FailedFetches(r) ==
  {n \in Positions(r, "fetch") : n < Len(trace[r]) /\ trace[r][n + 1].ev # "commit"}

\* the countries handler r has committed with at least one record
KeptOf(r) ==
  {trace[r][n].countryCode :
     n \in {m \in Positions(r, "commit") : trace[r][m].records # <<>>}}

DownloadHandlers == {r \in ReqIds : reqs[r].type = "DOWNLOAD_COUNTRIES"}
ScanHandlers == {r \in ReqIds : reqs[r].type \in {"PAGE_TEXT", "START_GEOCODING"}}

\* C1: every Location of a GEOCODE_RESULTS event is a record of the country
\* partition whose country code is in the list of the DOWNLOAD_COUNTRIES
\* request the event answers.
C1_ResultsWithinSelection ==
  \A r \in DownloadHandlers : \A n \in Positions(r, "GEOCODE_RESULTS") :
    \A k \in 1..Len(trace[r][n].locations) :
      /\ trace[r][n].locations[k] \in countryData
      /\ trace[r][n].locations[k].country \in SeqToSet(reqs[r].codes)

\* C5: when a download of a batch fails, the handler sends DOWNLOAD_ERROR and
\* ends: no later country is fetched, no DOWNLOAD_COMPLETE, no scan, no
\* GEOCODE_RESULTS, and the request is answered with a failure.
C5_FailureAbortsBatch ==
  \A r \in ReqIds : \A n \in FailedFetches(r) :
    /\ trace[r][n + 1].ev = "DOWNLOAD_ERROR"
    /\ Len(trace[r]) = n + 1
    /\ Cardinality(Positions(r, "fetch")) = reqs[r].i
    /\ Positions(r, "DOWNLOAD_COMPLETE") = {}
    /\ Positions(r, "GEOCODE_PROGRESS") = {}
    /\ Positions(r, "GEOCODE_RESULTS") = {}
    /\ reqs[r].pc = "done"
    /\ resp[r] = "failure"

\* a batch of two countries failed at its first: the second was never fetched
C5_Witness ==
  \E r \in ReqIds :
    /\ FailedFetches(r) # {}
    /\ reqs[r].i = 1
    /\ Len(reqs[r].toDownload) = 2
    /\ resp[r] = "failure"

\* what a failed batch committed before the failure is in the store
StoredStays ==
  \A r \in ReqIds : FailedFetches(r) # {} =>
    \A n \in Positions(r, "commit") :
      /\ SeqToSet(trace[r][n].records) \subseteq countryData
      /\ \E e \in downloadCache : e.countryCode = trace[r][n].countryCode
      /\ trace[r][n].records # <<>> => isCountryDownloaded(trace[r][n].countryCode)

\* a handler that checks a country a failed batch has stored does not put it
\* on its download list
NotFetchedAgain ==
  \A r, r2 \in ReqIds :
    (/\ FailedFetches(r) # {}
     /\ At(r2, "check")
     /\ reqs[r2].codes[reqs[r2].k] \in KeptOf(r))
    => reqs'[r2].toDownload = reqs[r2].toDownload

\* C6: after a batch failed, what it committed before the failure is still
\* stored: the records, the download record, isCountryDownloaded for a country
\* that loaded at least one record; and a batch that checks such a country
\* afterwards does not fetch it again.
C6_NoRollback == [] StoredStays /\ [][NotFetchedAgain]_vars

\* a batch failed at its second country after storing the places of the
\* first, and a later batch has checked the first and does not download it
C6_Witness ==
  \E r, r2 \in ReqIds :
    /\ FailedFetches(r) # {}
    /\ reqs[r].i = 2
    /\ KeptOf(r) = {reqs[r].toDownload[1]}
    /\ r2 > r
    /\ reqs[r2].type = "DOWNLOAD_COUNTRIES"
    /\ reqs[r2].codes # <<>>
    /\ reqs[r2].codes[1] \in KeptOf(r)
    /\ reqs[r2].k > 1
    /\ reqs[r2].toDownload = <<>>
    /\ Positions(r2, "fetch") = {}

\* C7: within a batch of M countries to fetch the j-th DOWNLOAD_PROGRESS event
\* carries current = j and total = M and is followed at once by the fetch it
\* announces; every fetch is announced; a fetch is followed by the commit of
\* its records before the next fetch of the batch is made.
C7_DownloadsSerialized ==
  \A r \in ReqIds :
    LET t == trace[r]
        M == Len(reqs[r].toDownload)
        progress == Positions(r, "DOWNLOAD_PROGRESS")
        fetches == Positions(r, "fetch")
    IN  /\ Cardinality(progress) <= M
        /\ \A n \in progress :
             LET j == Cardinality({m \in progress : m <= n})
             IN  /\ t[n].current = j
                 /\ t[n].total = M
                 /\ t[n].countryCode = reqs[r].toDownload[j]
                 /\ n < Len(t)
                 /\ t[n + 1].ev = "fetch"
                 /\ t[n + 1].countryCode = t[n].countryCode
        /\ \A n \in fetches : n > 1 /\ t[n - 1].ev = "DOWNLOAD_PROGRESS"
        /\ \A n, m \in fetches :
             n < m => /\ t[n + 1].ev = "commit"
                      /\ t[n + 1].countryCode = t[n].countryCode
                      /\ n + 1 < m

\* a batch of two countries has downloaded and committed both
C7_Witness ==
  \E r \in ReqIds :
    /\ Len(reqs[r].toDownload) = 2
    /\ Cardinality(Positions(r, "DOWNLOAD_PROGRESS")) = 2
    /\ Cardinality(Positions(r, "commit")) = 2

\* the events of a DOWNLOAD_COUNTRIES request that end it
IsTerminal(e) == e.ev \in {"GEOCODE_RESULTS", "GEOCODE_ERROR", "DOWNLOAD_ERROR"}

C9_WaitsForSelection ==
  \A r \in ReqIds : reqs[r].type # "DOWNLOAD_COUNTRIES" =>
    /\ \A n \in 1..Len(trace[r]) :
         /\ trace[r][n].ev \notin {"DOWNLOAD_PROGRESS", "fetch", "commit",
                                   "DOWNLOAD_COMPLETE", "GEOCODE_RESULTS"}
         /\ trace[r][n].ev = "GEOCODE_PROGRESS" => trace[r][n].status # "scanning"
    /\ \A n \in Positions(r, "COUNTRY_DETECTION") :
         n = Len(trace[r]) /\ reqs[r].pc = "done"
    /\ reqs[r].toDownload = <<>> /\ reqs[r].locations = <<>>

\* a scan has sent its detection event with a detected country, and the
\* DOWNLOAD_COUNTRIES message that followed has produced the results
C9_Witness ==
  \E r, r2 \in ReqIds :
    /\ r < r2
    /\ r \in ScanHandlers
    /\ \E n \in Positions(r, "COUNTRY_DETECTION") : trace[r][n].detectedCountries # <<>>
    /\ r2 \in DownloadHandlers
    /\ Positions(r2, "GEOCODE_RESULTS") # {}

\* C10: once handlePageText has stored the text of a new page, and until the
\* next DOWNLOAD_COUNTRIES message, selectedCountries does not hold the codes
\* selected before.
C10_SelectionDiscarded ==
  \A r \in ScanHandlers : \A r2 \in DownloadHandlers :
    (/\ reqs[r].pc \in {"detect", "done"}
     /\ reqs[r].url # "null"
     /\ r2 < r
     /\ reqs[r2].codes # <<>>
     /\ \A r3 \in DownloadHandlers : r3 < r)
    => selectedCountries # reqs[r2].codes

\* the scan handlers that have sent their detection event
Detected == {h \in ScanHandlers : Positions(h, "COUNTRY_DETECTION") # {}}

DetectionsOf(h) == {trace[h][n] : n \in Positions(h, "COUNTRY_DETECTION")}

\* C12: the detected countries depend on the text and the global partition
\* only: whatever the country partition and the download cache were when a
\* detection ran, its detectedCountries list is the list detection computes
\* on the same text over the store as it is now, and two detections on the
\* same text have the same list; the options repeat its codes and counts.
C12_DetectionGlobalOnly ==
  \A h \in Detected : \A e \in DetectionsOf(h) :
    /\ e.detectedCountries = geocodeText_detectedCountries(reqs[h].text)
    /\ \A h2 \in Detected : \A e2 \in DetectionsOf(h2) :
         reqs[h2].text = reqs[h].text => e2.detectedCountries = e.detectedCountries
    /\ Len(e.countryOptions) = Len(e.detectedCountries)
    /\ \A n \in 1..Len(e.detectedCountries) :
         /\ e.countryOptions[n].countryCode = e.detectedCountries[n].code
         /\ e.countryOptions[n].hitCount = e.detectedCountries[n].count

\* a detection has found countries, and the country partition holds places
\* of a candidate's name that a download of this run has stored
C12_Witness ==
  \E h \in Detected : \E e \in DetectionsOf(h) : \E r \in DownloadHandlers :
    /\ e.detectedCountries # <<>>
    /\ KeptOf(r) # {}
    /\ \E n \in 1..Len(candidatesOf(reqs[h].text)) :
         searchCountryData(candidatesOf(reqs[h].text)[n].name) # <<>>

\* C24: a scan that has no text to work on (the content script returned
\* none, or the PAGE_TEXT message carried an empty one) ends with an error
\* event and sends no detection event.
C24_NoTextIsError ==
  \A r \in ScanHandlers :
    (reqs[r].pc = "done" /\ reqs[r].text = <<>>) =>
      /\ Positions(r, "GEOCODE_ERROR") # {}
      /\ Positions(r, "COUNTRY_DETECTION") = {}

\* the countries handler r has fetched, in the order of the fetches
FetchedBy(r) ==
  LET RECURSIVE From(_)
      From(n) == IF n > Len(trace[r]) THEN <<>>
                 ELSE IF trace[r][n].ev = "fetch"
                        THEN <<trace[r][n].countryCode>> \o From(n + 1)
                        ELSE From(n + 1)
  IN  From(1)

\* the selected countries of handler r that were ready when it checked them
ReadyWhenChecked(r) ==
  {reqs[r].codes[n] : n \in 1..(reqs[r].k - 1)} \ SeqToSet(reqs[r].toDownload)

\* a step in which handler r checks one selected country puts it on the list
\* of countries to fetch exactly when isCountryDownloaded is false for it
ChecksReadiness ==
  \A r \in ReqIds :
    (reqs[r].pc = "check" /\ reqs'[r].k = reqs[r].k + 1) =>
      LET code == reqs[r].codes[reqs[r].k]
      IN  reqs'[r].toDownload = IF isCountryDownloaded(code) THEN reqs[r].toDownload
                                ELSE Append(reqs[r].toDownload, code)

\* the fetches of a batch are the countries found not ready, in order, up to
\* the first failure; a batch no fetch of which failed and that has gone on
\* to the scan has fetched them all; the total of every progress event is the
\* number of countries found not ready
FetchesNotReady ==
  \A r \in DownloadHandlers :
    /\ Len(FetchedBy(r)) <= Len(reqs[r].toDownload)
    /\ FetchedBy(r) = FirstN(reqs[r].toDownload, Len(FetchedBy(r)))
    /\ SeqToSet(FetchedBy(r)) \cap ReadyWhenChecked(r) = {}
    /\ (reqs[r].pc \in {"scan", "emit", "done"} /\ FailedFetches(r) = {}) =>
         FetchedBy(r) = reqs[r].toDownload
    /\ \A n \in Positions(r, "DOWNLOAD_PROGRESS") :
         trace[r][n].total = Len(reqs[r].toDownload)

\* C27 as stated: a batch that has ended has fetched every selected country
\* that was not ready when checked, and the total of its progress events is
\* the number of countries it fetched.
C27_FetchesAllNotReady ==
  \A r \in DownloadHandlers : reqs[r].pc = "done" =>
    /\ SeqToSet(FetchedBy(r)) = SeqToSet(reqs[r].toDownload)
    /\ \A n \in Positions(r, "DOWNLOAD_PROGRESS") :
         trace[r][n].total = Len(FetchedBy(r))

\* C27: a selected country is put on the list of countries to fetch exactly
\* when isCountryDownloaded is false for it at the check; a country found
\* ready is never fetched in the batch; the countries found not ready are
\* fetched in order, all of them unless a fetch of the batch fails; the total
\* of the progress events is the number of countries found not ready, not
\* the number selected.
C27_FetchesNotReady == [] FetchesNotReady /\ [][ChecksReadiness]_vars

\* a batch of two selected countries, one of them ready, has fetched the
\* other one only and announced it as 1 of 1
C27_Witness ==
  \E r \in DownloadHandlers :
    /\ reqs[r].pc = "done" /\ resp[r] = "success"
    /\ Len(reqs[r].codes) = 2
    /\ ReadyWhenChecked(r) = {reqs[r].codes[1]}
    /\ FetchedBy(r) = <<reqs[r].codes[2]>>
    /\ \A n \in Positions(r, "DOWNLOAD_PROGRESS") :
         trace[r][n].current = 1 /\ trace[r][n].total = 1

\* C31: every GEOCODE_RESULTS event reports the url of the page whose text
\* its handler scanned, that text is the text of a detection that was sent
\* before, and every Location of the event is of a country of the event's
\* selectedCountries list when that list is not empty.
C31_ResultsSelfConsistent ==
  \A r \in DownloadHandlers : \A n \in Positions(r, "GEOCODE_RESULTS") :
    LET e == trace[r][n]
    IN  /\ \/ e.url = "null" /\ reqs[r].text = <<>>
           \/ \E p \in Sent : p.url = e.url /\ p.text = reqs[r].text
        /\ e.url # "null" => \E h \in Detected : reqs[h].text = reqs[r].text
        /\ e.selectedCountries # <<>> =>
             \A k \in 1..Len(e.locations) :
               e.locations[k].country \in SeqToSet(e.selectedCountries)

\* C26: a handler that failed has sent exactly one error event
\* (GEOCODE_ERROR or DOWNLOAD_ERROR), and a handler sends DOWNLOAD_ERROR only
\* after a fetch of one of its countries failed.
C26_OneErrorEvent ==
  \A r \in ReqIds :
    LET errors == Positions(r, "GEOCODE_ERROR") \cup Positions(r, "DOWNLOAD_ERROR")
    IN  /\ (reqs[r].pc = "done" /\ resp[r] = "failure") => Cardinality(errors) = 1
        /\ Positions(r, "DOWNLOAD_ERROR") # {} => FailedFetches(r) # {}

(***************************************************************************)
(* Initialization (background.js, initialize): calls made while isInitialized *)
(* is false, by the message listener (lines 83-85) or by the click on the  *)
(* extension icon (lines 66-68), each cut at its awaits.                   *)
(***************************************************************************)
messageVars == <<currentPageText, currentPageUrl, selectedCountries, reqs, trace, resp>>

\* GeoNamesDB.loadCities: the two object stores after its transaction commits
\* a variant of loadCities_cities that does not clear the store first
loadCities_cities_adds(list) == cities \cup SeqToSet(list)

\* citiesStore.clear() and an add per record (lines 87-106)
loadCities_cities(list) == SeqToSet(list)

\* add fails on a key the store already holds, which aborts the transaction:
\* the load commits when no two records of the list share a geonameId
loadCities_commits(list) ==
  \A n, m \in 1..Len(list) : list[n].geonameId = list[m].geonameId => n = m

loadCities_metadata(list) ==
  {m \in metadata : m.key # "citiesLoaded"}
    \cup {[key |-> "citiesLoaded", count |-> Len(list)]}

\* a variant of isCitiesLoaded that answers from the flag of the session
isCitiesLoaded_byFlag == isInitialized

\* GeoNamesDB.isCitiesLoaded on a ready object: !!request.result
isCitiesLoaded == \E m \in metadata : m.key = "citiesLoaded"

\* initialize() up to its first await (lines 17-28): the guard, the new
\* GeoNamesDB object assigned to db, the request to open the database
InitializeStart(c) ==
  /\ UNCHANGED mapVars
  /\ calls[c].pc = "idle"
  /\ IF isInitialized
       THEN /\ calls' = [calls EXCEPT ![c].pc = "returned"]
            /\ UNCHANGED <<db, handles>>
       ELSE /\ db' = c
            /\ handles' = [handles EXCEPT ![c] = "opening"]
            /\ calls' = [calls EXCEPT ![c].pc = "init"]
  /\ UNCHANGED <<storeVars, isInitialized, messageVars, queryVars>>

\* the open request of the call's object succeeds (database.js lines 24-29),
\* the call resumes and calls db.isCitiesLoaded() (line 31), which answers
\* false at once when the object db refers to is not ready (line 132)
InitializeOpened(c) ==
  /\ UNCHANGED mapVars
  /\ calls[c].pc = "init"
  /\ handles' = [handles EXCEPT ![c] = "ready"]
  /\ calls' = [calls EXCEPT ![c].pc = IF db = c \/ handles[db] = "ready"
                                       THEN "isCitiesLoaded" ELSE "fetch"]
  /\ UNCHANGED <<storeVars, isInitialized, db, messageVars, queryVars>>

\* db.isCitiesLoaded() answers from the metadata store (lines 31-33, 45)
InitializeChecked(c) ==
  /\ UNCHANGED mapVars
  /\ calls[c].pc = "isCitiesLoaded"
  /\ calls' = [calls EXCEPT ![c].pc = IF isCitiesLoaded THEN "getCitiesCount"
                                       ELSE "fetch"]
  /\ UNCHANGED <<storeVars, isInitialized, db, handles, messageVars, queryVars>>

\* the bundled file is fetched and parsed (lines 37-38), db.loadCities is
\* called (line 41) and throws when the object db refers to is not ready
\* (database.js line 75): initialize() rethrows (lines 51-54)
InitializeFetched(c) ==
  /\ UNCHANGED mapVars
  /\ calls[c].pc = "fetch"
  /\ calls' = [calls EXCEPT ![c].pc = IF dbIsReady THEN "loadCities" ELSE "failed"]
  /\ UNCHANGED <<storeVars, isInitialized, db, handles, messageVars, queryVars>>

\* the transaction of loadCities commits, the call sets isInitialized and
\* returns (lines 41-50)
InitializeLoaded(c) ==
  /\ UNCHANGED mapVars
  /\ calls[c].pc = "loadCities"
  /\ cities' = loadCities_cities(cities15000)
  /\ metadata' = loadCities_metadata(cities15000)
  /\ isInitialized' = TRUE
  /\ calls' = [calls EXCEPT ![c].pc = "returned", ![c].loaded = TRUE]
  /\ UNCHANGED <<countryData, downloadCache, db, handles, messageVars, queryVars>>

\* db.getCitiesCount() answers, the call sets isInitialized and returns
\* (lines 45-50)
InitializeCounted(c) ==
  /\ UNCHANGED mapVars
  /\ calls[c].pc = "getCitiesCount"
  /\ isInitialized' = TRUE
  /\ calls' = [calls EXCEPT ![c].pc = "returned"]
  /\ UNCHANGED <<storeVars, db, handles, messageVars, queryVars>>

\* the service worker starts: the store as an earlier session left it (empty
\* on the first run), the globals at their initial values
InitOfInit ==
  /\ NoMap
  /\ \/ cities = {} /\ metadata = {}
     \/ /\ cities = SeqToSet(cities15000)
        /\ metadata = {[key |-> "citiesLoaded", count |-> Len(cities15000)]}
  /\ \E earlier \in Earlier :
       /\ countryData =
            UNION {SeqToSet(GeoNamesDump(c)) : c \in {x \in Codes : earlier[x] = "places"}}
       /\ downloadCache =
            {[countryCode |-> c, cityCount |-> Len(GeoNamesDump(c))] :
               c \in {x \in Codes : earlier[x] = "places"}}
  /\ isInitialized = FALSE
  /\ db = 0
  /\ handles = [h \in Calls |-> "none"]
  /\ calls = [c \in Calls |-> NoCall]
  /\ ret = NoRet
  /\ nops = 0
  /\ currentPageText = <<>>
  /\ currentPageUrl = "null"
  /\ selectedCountries = <<>>
  /\ reqs = [r \in ReqIds |-> NoReq]
  /\ trace = [r \in ReqIds |-> <<>>]
  /\ resp = [r \in ReqIds |-> "none"]

NextOfInit ==
  \/ \E c \in Calls : InitializeStart(c)
  \/ \E c \in Calls : InitializeOpened(c)
  \/ \E c \in Calls : InitializeChecked(c)
  \/ \E c \in Calls : InitializeFetched(c)
  \/ \E c \in Calls : InitializeLoaded(c)
  \/ \E c \in Calls : InitializeCounted(c)

SpecInit == InitOfInit /\ [][NextOfInit]_vars

\* C2: however the calls of initialize() overlap, the store is opened once,
\* the bundled dataset is loaded at most once, no call fails, and once a call
\* has returned and none is in progress db refers to a ready store.
C2_InitializeOnce ==
  /\ Cardinality({h \in Calls : handles[h] # "none"}) <= 1
  /\ Cardinality({c \in Calls : calls[c].loaded}) <= 1
  /\ \A c \in Calls : calls[c].pc # "failed"
  /\ (/\ \A c \in Calls : calls[c].pc \in {"idle", "returned"}
      /\ \E c \in Calls : calls[c].pc = "returned")
     => dbIsReady

\* C32: a country that was ready when the worker stopped (its download
\* record and its records are in the store) is ready after the
\* re-initialization: once isInitialized is set, which is when the handlers
\* go on to call it, isCountryDownloaded answers true for it.
C32_ReadinessStable ==
  \A code \in Codes :
    (/\ isInitialized
     /\ \E e \in downloadCache : e.countryCode = code
     /\ \E r \in countryData : r.country = code)
    => isCountryDownloaded(code)

(***************************************************************************)
(* Sessions of the service worker (background.js, the message listener and *)
(* initialize): messages handled one after the other, each calling         *)
(* initialize() when isInitialized is false, with the failures the code    *)
(* rethrows and the restart of the worker; the operation a message runs    *)
(* after the switch is the subject of the message handlers above and is    *)
(* recorded here as one event.                                             *)
(***************************************************************************)
MESSAGE_TYPES == {"PING", "PAGE_TEXT", "START_GEOCODING", "DB_READY", "DOWNLOAD_COUNTRIES"}

\* a variant of the listener's test that leaves the message type out
NeedsInitialize_any(type) == ~isInitialized

\* the listener's test before the switch (lines 83-85)
NeedsInitialize(type) == type # "DB_READY" /\ ~isInitialized

\* no message is being handled
Idle == \A r \in ReqIds : reqs[r].pc \in {"none", "done"}

\* a message arrives while no other is being handled (lines 77-85)
Listener_receive ==
  /\ UNCHANGED mapVars
  /\ Idle
  /\ NextId <= MaxReq
  /\ NextId \in Calls
  /\ \E type \in MESSAGE_TYPES :
       reqs' = [reqs EXCEPT ![NextId] =
                  [NoReq EXCEPT !.type = type,
                                !.pc = IF NeedsInitialize(type) THEN "initialize"
                                       ELSE "switch"]]
  /\ UNCHANGED <<storeVars, isInitialized, initVars, queryVars, currentPageText,
                 currentPageUrl, selectedCountries, trace, resp>>

\* the listener calls initialize() (line 84); the call of message r is call r
Listener_initialize(r) ==
  /\ UNCHANGED mapVars
  /\ At(r, "initialize")
  /\ r \in Calls
  /\ InitializeStart(r)

\* the open request fails (database.js lines 19-22): init rejects and
\* initialize() rethrows (lines 51-54)
InitializeOpenFailed(c) ==
  /\ UNCHANGED mapVars
  /\ calls[c].pc = "init"
  /\ handles' = [handles EXCEPT ![c] = "failed"]
  /\ calls' = [calls EXCEPT ![c].pc = "failed"]
  /\ UNCHANGED <<storeVars, isInitialized, db, messageVars, queryVars>>

\* the bundled file cannot be fetched or parsed (lines 37-38, 51-54)
InitializeFetchFailed(c) ==
  /\ UNCHANGED mapVars
  /\ calls[c].pc = "fetch"
  /\ calls' = [calls EXCEPT ![c].pc = "failed"]
  /\ UNCHANGED <<storeVars, isInitialized, db, handles, messageVars, queryVars>>

\* the transaction of loadCities fails (database.js lines 121-124): nothing
\* is committed, loadCities rejects and initialize() rethrows
InitializeLoadFailed(c) ==
  /\ UNCHANGED mapVars
  /\ calls[c].pc = "loadCities"
  /\ calls' = [calls EXCEPT ![c].pc = "failed"]
  /\ UNCHANGED <<storeVars, isInitialized, db, handles, messageVars, queryVars>>

\* initialize() has returned: the listener goes on to the switch (line 87)
Listener_initialized(r) ==
  /\ UNCHANGED mapVars
  /\ At(r, "initialize")
  /\ r \in Calls
  /\ calls[r].pc = "returned"
  /\ reqs' = [reqs EXCEPT ![r].pc = "switch"]
  /\ UNCHANGED <<storeVars, settled, currentPageText, currentPageUrl,
                 selectedCountries, trace, resp>>

\* initialize() has thrown: the handler rejects and the wrapper answers
\* success = false (message.js lines 93-99)
Listener_rejected(r) ==
  /\ UNCHANGED mapVars
  /\ At(r, "initialize")
  /\ r \in Calls
  /\ calls[r].pc = "failed"
  /\ reqs' = [reqs EXCEPT ![r].pc = "done"]
  /\ resp' = [resp EXCEPT ![r] = "failure"]
  /\ UNCHANGED <<storeVars, settled, currentPageText, currentPageUrl,
                 selectedCountries, trace>>

\* the switch (lines 87-111): DB_READY and PING are answered at once, the
\* other messages run their operation, which succeeds or throws
Listener_switch(r) ==
  /\ UNCHANGED mapVars
  /\ At(r, "switch")
  /\ Send(r, << IF reqs[r].type = "DB_READY"
                  THEN [ev |-> "DB_READY", ready |-> isInitialized]
                  ELSE [ev |-> "operation", type |-> reqs[r].type] >>)
  /\ reqs' = [reqs EXCEPT ![r].pc = "done"]
  /\ \E answer \in IF reqs[r].type \in {"DB_READY", "PING"} THEN {"success"}
                   ELSE {"success", "failure"} :
       resp' = [resp EXCEPT ![r] = answer]
  /\ UNCHANGED <<storeVars, settled, currentPageText, currentPageUrl,
                 selectedCountries>>

\* the browser stops the idle service worker and starts it again: the globals
\* are back at their initial values (lines 9-12), the database is as it was
Restart ==
  /\ UNCHANGED mapVars
  /\ Idle
  /\ db # 0
  /\ isInitialized' = FALSE
  /\ db' = 0
  /\ handles' = [h \in Calls |-> "none"]
  /\ UNCHANGED <<storeVars, calls, messageVars, queryVars>>

NextOfSessions ==
  \/ Listener_receive
  \/ \E r \in ReqIds : Listener_initialize(r)
  \/ \E c \in Calls : InitializeOpened(c)
  \/ \E c \in Calls : InitializeOpenFailed(c)
  \/ \E c \in Calls : InitializeChecked(c)
  \/ \E c \in Calls : InitializeFetched(c)
  \/ \E c \in Calls : InitializeFetchFailed(c)
  \/ \E c \in Calls : InitializeLoaded(c)
  \/ \E c \in Calls : InitializeLoadFailed(c)
  \/ \E c \in Calls : InitializeCounted(c)
  \/ \E r \in ReqIds : Listener_initialized(r)
  \/ \E r \in ReqIds : Listener_rejected(r)
  \/ \E r \in ReqIds : Listener_switch(r)
  \/ Restart

SpecSessions == InitOfInit /\ [][NextOfSessions]_vars

\* a step that calls loadCities, or commits its transaction, is taken while
\* the marker is absent; while the marker is present no step changes the
\* global partition or the marker
LoadsOnlyUnmarked ==
  /\ \A c \in Calls :
       \/ (calls'[c].pc = "loadCities" /\ calls[c].pc # "loadCities")
       \/ (calls'[c].loaded /\ ~calls[c].loaded)
       => ~(\E m \in metadata : m.key = "citiesLoaded")
  /\ (\E m \in metadata : m.key = "citiesLoaded") =>
       cities' = cities /\ metadata' = metadata

\* a session that is initialized has the marker and the bundled records
InitializedIsLoaded ==
  isInitialized =>
    /\ \E m \in metadata : m.key = "citiesLoaded"
    /\ cities = SeqToSet(cities15000)

FailedInit == {r \in ReqIds \cap Calls : calls[r].pc = "failed"}

\* a message whose initialization failed is answered with a failure, its
\* operation is not run and isInitialized is false when it ends; DB_READY
\* makes no call of initialize() and is answered with the flag
FailureIsLocal ==
  /\ \A r \in FailedInit :
       /\ trace[r] = <<>>
       /\ reqs[r].pc = "done" => resp[r] = "failure"
       /\ reqs[r].pc = "initialize" => ~isInitialized
  /\ \A r \in ReqIds : reqs[r].type = "DB_READY" =>
       /\ r \in Calls => calls[r].pc = "idle"
       /\ reqs[r].pc = "done" =>
            /\ resp[r] = "success"
            /\ Len(trace[r]) = 1 /\ trace[r][1].ev = "DB_READY"

\* the step that answers a failed initialization leaves isInitialized false;
\* a message other than DB_READY that arrives while isInitialized is false
\* goes to initialize(), DB_READY goes to the switch; DB_READY reports the
\* flag as it is when it is answered
RetriesInitialize ==
  \A r \in ReqIds :
    /\ (r \in FailedInit /\ reqs[r].pc = "initialize" /\ reqs'[r].pc = "done") =>
         ~isInitialized'
    /\ (reqs[r].type = "none" /\ reqs'[r].type # "none") =>
         reqs'[r].pc = IF reqs'[r].type # "DB_READY" /\ ~isInitialized
                         THEN "initialize" ELSE "switch"
    /\ (reqs[r].type = "DB_READY" /\ trace'[r] # trace[r]) =>
         trace'[r][1].ready = isInitialized

\* C29: when initialize() throws, the message that called it is answered with
\* success = false and its operation is not run, isInitialized stays false,
\* and the next message other than DB_READY calls initialize() again; DB_READY
\* never calls initialize() and reports the current flag.
C29_InitFailureRecoverable == [] FailureIsLocal /\ [][RetriesInitialize]_vars

\* the initialization of the first message failed and the message was refused;
\* the second message initialized the session and ran its operation
C29_Witness ==
  /\ 2 \in Calls
  /\ 1 \in FailedInit
  /\ resp[1] = "failure"
  /\ calls[2].pc = "returned"
  /\ isInitialized
  /\ reqs[2].pc = "done"
  /\ trace[2] # <<>>

(***************************************************************************)
(* The store used directly (database.js): operations of GeoNamesDB on a    *)
(* ready object, one after the other.                                      *)
(***************************************************************************)
\* the names looked up
Names == {<<"P", "a">>, <<"T", "a">>, <<"X", "x">>}

\* a newer record of the city PaFR, as a later dump of FR carries it
PaFRnew == City(1, <<"p", "a">>, FR, <<"1", "1">>, 4)

\* the lists loadCities and loadCountryData are given
Bundles == {cities15000, <<PaFR, PaJP>>, <<PaFR, PaFRnew>>}
Lists == {<<>>, <<PaFR, PaFR2>>, <<PaFRnew, PaFR2>>, <<TaJP, PaJP>>, <<PaJP>>}

Operation == nops < MaxStoreOps /\ nops' = nops + 1

Store_loadCities ==
  /\ UNCHANGED mapVars
  /\ Operation
  /\ \E list \in Bundles :
       /\ IF loadCities_commits(list)
            THEN /\ cities' = loadCities_cities(list)
                 /\ metadata' = loadCities_metadata(list)
            ELSE UNCHANGED <<cities, metadata>>
       /\ ret' = [op |-> "loadCities", list |-> list,
                  committed |-> loadCities_commits(list)]
  /\ UNCHANGED <<countryData, downloadCache, orchVars, initVars>>

Store_loadCountryData ==
  /\ UNCHANGED mapVars
  /\ Operation
  /\ \E countryCode \in Codes, list \in Lists :
       /\ countryData' = loadCountryData_countryData(countryCode, list)
       /\ downloadCache' = loadCountryData_downloadCache(countryCode, list)
       /\ ret' = [op |-> "loadCountryData", countryCode |-> countryCode,
                  list |-> list]
  /\ UNCHANGED <<cities, metadata, orchVars, initVars>>

Store_isCountryDownloaded ==
  /\ UNCHANGED mapVars
  /\ Operation
  /\ \E countryCode \in Codes :
       ret' = [op |-> "isCountryDownloaded", countryCode |-> countryCode,
               value |-> isCountryDownloaded(countryCode)]
  /\ UNCHANGED <<storeVars, orchVars, initVars>>

Store_searchAllSources ==
  /\ UNCHANGED mapVars
  /\ Operation
  /\ \E name \in Names :
       ret' = [op |-> "searchAllSources", name |-> name,
               value |-> searchAllSources(name)]
  /\ UNCHANGED <<storeVars, orchVars, initVars>>

Store_searchByName ==
  /\ UNCHANGED mapVars
  /\ Operation
  /\ \E name \in Names :
       ret' = [op |-> "searchByName", name |-> name,
               value |-> searchByName(name)]
  /\ UNCHANGED <<storeVars, orchVars, initVars>>

Store_searchCountryData ==
  /\ UNCHANGED mapVars
  /\ Operation
  /\ \E name \in Names :
       ret' = [op |-> "searchCountryData", name |-> name,
               value |-> searchCountryData(name)]
  /\ UNCHANGED <<storeVars, orchVars, initVars>>

\* initialize() has completed on a first run: the bundled dataset is loaded,
\* nothing is downloaded
InitOfStore ==
  /\ NoMap
  /\ cities = SeqToSet(cities15000)
  /\ metadata = {[key |-> "citiesLoaded", count |-> Len(cities15000)]}
  /\ countryData = {}
  /\ downloadCache = {}
  /\ isInitialized = TRUE
  /\ db = 1
  /\ handles = [h \in Calls |-> IF h = 1 THEN "ready" ELSE "none"]
  /\ calls = [c \in Calls |-> IF c = 1 THEN [NoCall EXCEPT !.pc = "returned"] ELSE NoCall]
  /\ ret = NoRet
  /\ nops = 0
  /\ currentPageText = <<>>
  /\ currentPageUrl = "null"
  /\ selectedCountries = <<>>
  /\ reqs = [r \in ReqIds |-> NoReq]
  /\ trace = [r \in ReqIds |-> <<>>]
  /\ resp = [r \in ReqIds |-> "none"]

NextOfStore ==
  \/ Store_loadCities
  \/ Store_loadCountryData
  \/ Store_isCountryDownloaded
  \/ Store_searchAllSources
  \/ Store_searchByName
  \/ Store_searchCountryData

SpecStore == InitOfStore /\ [][NextOfStore]_vars

\* the geonameIds of the records of a list
Ids(list) == {list[n].geonameId : n \in 1..Len(list)}

C4_AllSourcesGlobalFirst ==
  ret.op = "searchAllSources" =>
    LET global == searchByName(ret.name)
        country == searchCountryData(ret.name)
        isNew(c) == c.geonameId \notin Ids(global)
    IN  /\ ret.value = global \o SelectSeq(country, isNew)
        /\ Ids(ret.value) = Ids(global) \cup Ids(country)
        /\ Cardinality(Ids(ret.value)) = Len(ret.value)
        /\ \A n \in 1..Len(ret.value) :
             ret.value[n].geonameId \in Ids(global) => ret.value[n] \in cities

\* a name found in both partitions, one id in both with different records,
\* another id in the country partition only
C4_Witness ==
  /\ ret.op = "searchAllSources"
  /\ \E g \in cities, c \in countryData :
       /\ g.geonameId = c.geonameId
       /\ g # c
       /\ g.ascii = ToLowerCase(ret.name)
       /\ c.ascii = ToLowerCase(ret.name)
  /\ Len(ret.value) > Len(searchByName(ret.name))

\* C22: a loadCities that commits leaves in the global partition exactly
\* the records it was given, whatever the partition held, and the marker
\* 'citiesLoaded' with their number; repeated with the same records it
\* leaves the partition as it is.
C22_LoadCitiesReplaces ==
  [][(ret'.op = "loadCities" /\ ret'.committed) =>
       /\ cities' = {ret'.list[n] : n \in 1..Len(ret'.list)}
       /\ \E m \in metadata' : m.key = "citiesLoaded" /\ m.count = Len(ret'.list)
       /\ Cardinality({m \in metadata' : m.key = "citiesLoaded"}) = 1
       /\ (ret.op = "loadCities" /\ ret.committed /\ ret.list = ret'.list)
          => cities' = cities]_vars

\* the partition held the bundled dataset, then other records were loaded
\* and loaded again: the place of the bundled dataset they do not have is gone
C22_Witness ==
  /\ ret.op = "loadCities"
  /\ ret.committed
  /\ nops >= 2
  /\ TaJP \notin cities
  /\ cities = SeqToSet(ret.list)
  /\ cities # {}

\* C23: loadCountryData(code, records) leaves the country partition as it
\* was except that the given records are in it, each in place of the record
\* that had its geonameId if there was one; no two records of the partition
\* share a geonameId; the download record of code holds the number of the
\* given records and the download records of other codes are as they were.
C23_LoadCountryDataUpserts ==
  [][ret'.op = "loadCountryData" =>
       LET given == {ret'.list[n] : n \in 1..Len(ret'.list)}
           kept == {r \in countryData : \A g \in given : g.geonameId # r.geonameId}
       IN  /\ countryData' = kept \cup given
           /\ \A a, b \in countryData' : a.geonameId = b.geonameId => a = b
           /\ {e \in downloadCache' : e.countryCode = ret'.countryCode}
                = {[countryCode |-> ret'.countryCode, cityCount |-> Len(ret'.list)]}
           /\ {e \in downloadCache' : e.countryCode # ret'.countryCode}
                = {e \in downloadCache : e.countryCode # ret'.countryCode}]_vars

\* a record of the partition was replaced by a newer one of the same id, a
\* record of another country is still there, and both countries have their
\* download record
C23_Witness ==
  /\ ret.op = "loadCountryData"
  /\ PaFRnew \in countryData
  /\ TaJP \in countryData
  /\ nops >= 3
  /\ Cardinality(downloadCache) = 2

\* no step removes a record from the country partition (a record may be
\* replaced by one of the same geonameId and country) or an entry from the
\* download cache
NothingRemoved ==
  /\ \A c \in countryData :
       \E d \in countryData' : d.geonameId = c.geonameId /\ d.country = c.country
  /\ \A e \in downloadCache :
       \E f \in downloadCache' : f.countryCode = e.countryCode

\* a country that is ready before a step is ready after it
StaysReady ==
  \A code \in Codes :
    (/\ \E e \in downloadCache : e.countryCode = code
     /\ \E c \in countryData : c.country = code)
    => /\ \E e \in downloadCache' : e.countryCode = code
       /\ \E c \in countryData' : c.country = code

\* C33: loadCities leaves the country partition and the download cache as
\* they were, loadCountryData leaves the global partition and the metadata as
\* they were, every record searchByName returns is a record of the global
\* partition and every record searchCountryData returns is a record of the
\* country partition.
C33_PartitionsIsolated ==
  [][/\ ret'.op = "loadCities" =>
          /\ countryData' = countryData
          /\ downloadCache' = downloadCache
          /\ {m \in metadata' : m.key # "citiesLoaded"}
               = {m \in metadata : m.key # "citiesLoaded"}
     /\ ret'.op = "loadCountryData" =>
          /\ cities' = cities
          /\ metadata' = metadata
     /\ ret'.op = "searchByName" =>
          \A k \in 1..Len(ret'.value) : ret'.value[k] \in cities
     /\ ret'.op = "searchCountryData" =>
          \A k \in 1..Len(ret'.value) : ret'.value[k] \in countryData]_vars

\* searchByName has answered for a name that a record of the country
\* partition alone carries, after a load of each partition
C33_Witness ==
  /\ ret.op = "searchByName"
  /\ \E r \in countryData \ cities : r.ascii = ToLowerCase(ret.name)
  /\ \A k \in 1..Len(ret.value) : ret.value[k] \in cities
  /\ ret.value # <<>>
  /\ cities # SeqToSet(cities15000)
  /\ nops = MaxStoreOps

\* every store operation (loadCities, loadCountryData for any country and
\* list, the empty list included, the searches) keeps the records of the
\* country partition and the entries of the download cache, and with them
\* the readiness of every country on the opened store
StoreKeepsReadiness ==
  [][/\ NothingRemoved
     /\ StaysReady
     /\ \A code \in Codes : isCountryDownloaded(code) =>
          /\ \E e \in downloadCache' : e.countryCode = code
          /\ Cardinality({c \in countryData' : c.country = code}) # 0]_vars

(***************************************************************************)
(* The text pipeline used directly (geocoder.js): extraction, detection,   *)
(* matching and the full scan applied to a page text over a gazetteer.     *)
(***************************************************************************)
\* the pieces generated page texts are made of
Tokens == { <<"P", "a">>, <<"T", "a">>, <<"O", "n">>, <<",">>, <<" ">>, <<".">> }

\* the texts of at most n tokens
RECURSIVE TokenTexts(_)
TokenTexts(n) ==
  IF n = 0 THEN {<<>>}
  ELSE LET shorter == TokenTexts(n - 1)
       IN  shorter \cup {t \o k : t \in shorter, k \in Tokens}

\* "Pa. Pa. Pa. Ta": one place named three times, another once
ThreeAndOne ==
  <<"P", "a", ".", " ", "P", "a", ".", " ", "P", "a", ".", " ", "T", "a">>
\* "Pa, France. Pa, Or. Pa, Xx": qualifiers that are a country name, a
\* first-level division and neither
Qualified ==
  <<"P", "a", ",", " ", "F", "r", "a", "n", "c", "e", ".", " ",
    "P", "a", ",", " ", "O", "r", ".", " ", "P", "a", ",", " ", "X", "x">>
\* "Pa Ta.Pa  Ta": a two-word name written with one blank and with two
TwoBlanks ==
  <<"P", "a", " ", "T", "a", ".", "P", "a", " ", " ", "T", "a">>
\* "MAY, Fr. Nice. On Pa, The": stop words and a false positive among names
StopWords ==
  <<"M", "A", "Y", ",", " ", "F", "r", ".", " ", "N", "i", "c", "e", ".", " ",
    "O", "n", " ", "P", "a", ",", " ", "T", "h", "e">>
\* a tab, "Pa", a blank, a line break, two blanks, "Ta", a line break: white
\* space of every kind at both ends and in a run of four
Ragged ==
  <<"\t", "P", "a", " ", "\n", " ", " ", "T", "a", "\n">>

Texts ==
  TokenTexts(MaxTokens)
    \cup {Page1.text, ThreeAndOne, Qualified, TwoBlanks, StopWords, Ragged}

\* records of further places named "Pa": one of Oregon, and a city of Japan
\* as populous as PaFR
PaOR == City(5, <<"p", "a">>, FR, <<"O", "R">>, 2)
PaJP2 == City(6, <<"p", "a">>, JP, <<"1", "3">>, 2)

\* the country codes AA, AB, ... and a gazetteer that has one to three
\* places named "Ta" in each of them
CodeOf(k) == <<"A", UpperSeq[k]>>
ManyCountries ==
  UNION { { City(100 + 10 * k + j, <<"t", "a">>, CodeOf(k), <<"0", "1">>, 1) :
              j \in 1..((k % 3) + 1) } : k \in 1..MaxCountries }

\* the gazetteers the pipeline is applied to: the bundled dataset with both
\* countries downloaded, with France alone, places of equal population in
\* both partitions, a global partition whose record of "Pa" is newer and
\* smaller than the one of the country partition, and a global partition of
\* many countries
Gazetteers ==
  { [cities |-> SeqToSet(cities15000),
     countryData |-> SeqToSet(GeoNamesDump(FR)) \cup SeqToSet(GeoNamesDump(JP))],
    [cities |-> SeqToSet(cities15000), countryData |-> SeqToSet(GeoNamesDump(FR))],
    [cities |-> {PaJP2, TaJP}, countryData |-> {PaFR, PaFR2, PaOR}],
    [cities |-> {PaFR2, TaJP}, countryData |-> {PaFR, PaJP}],
    [cities |-> ManyCountries, countryData |-> {}] }

\* the pipeline is applied once per text and gazetteer
Unused == ret = NoRet

Text_extractCandidates ==
  /\ UNCHANGED mapVars
  /\ Unused
  /\ ret' = [op |-> "extractCandidates", value |-> extractCandidates(currentPageText)]
  /\ UNCHANGED <<storeVars, orchVars, initVars, nops>>

Text_normalizeText ==
  /\ UNCHANGED mapVars
  /\ Unused
  /\ ret' = [op |-> "normalizeText", value |-> normalizeText(currentPageText)]
  /\ UNCHANGED <<storeVars, orchVars, initVars, nops>>

Text_extractCapitalizedWords ==
  /\ UNCHANGED mapVars
  /\ Unused
  /\ ret' = [op |-> "extractCapitalizedWords",
             value |-> extractCapitalizedWords(currentPageText)]
  /\ UNCHANGED <<storeVars, orchVars, initVars, nops>>

\* geocodeText with detectionOnly = true
Text_detect ==
  /\ UNCHANGED mapVars
  /\ Unused
  /\ ret' = [op |-> "detect", value |-> geocodeText_detectedCountries(currentPageText)]
  /\ UNCHANGED <<storeVars, orchVars, initVars, nops>>

\* findMatches on a candidate of the text
Text_findMatches ==
  /\ UNCHANGED mapVars
  /\ Unused
  /\ \E n \in 1..Len(candidatesOf(currentPageText)),
        useCountryDataOnly \in BOOLEAN, filterCountries \in Selections :
       LET candidate == candidatesOf(currentPageText)[n]
       IN  ret' = [op |-> "findMatches", candidate |-> candidate,
                   useCountryDataOnly |-> useCountryDataOnly,
                   filterCountries |-> filterCountries,
                   value |-> findMatches(candidate, useCountryDataOnly,
                                         filterCountries)]
  /\ UNCHANGED <<storeVars, orchVars, initVars, nops>>

\* geocodeText with detectionOnly = false
Text_geocodeText ==
  /\ UNCHANGED mapVars
  /\ Unused
  /\ \E useCountryDataOnly \in BOOLEAN, filterCountries \in Selections :
       ret' = [op |-> "geocodeText", useCountryDataOnly |-> useCountryDataOnly,
               filterCountries |-> filterCountries,
               value |-> geocodeText_locations(currentPageText, useCountryDataOnly,
                                               filterCountries)]
  /\ UNCHANGED <<storeVars, orchVars, initVars, nops>>

\* matchCandidates on the candidates of the text
Text_matchCandidates ==
  /\ UNCHANGED mapVars
  /\ Unused
  /\ \E useCountryDataOnly \in BOOLEAN, filterCountries \in Selections :
       ret' = [op |-> "matchCandidates",
               candidates |-> candidatesOf(currentPageText),
               useCountryDataOnly |-> useCountryDataOnly,
               filterCountries |-> filterCountries,
               value |-> matchCandidates(candidatesOf(currentPageText),
                                         useCountryDataOnly, filterCountries)]
  /\ UNCHANGED <<storeVars, orchVars, initVars, nops>>

\* countryCounts.get(code) when the store rejects the search for the
\* candidates at the positions `rejected`: the catch of the loop (lines
\* 334-336) goes on with the next candidate; n is the position reached
RECURSIVE countryCountsOn(_, _, _, _)
countryCountsOn(candidates, rejected, n, code) ==
  IF n > Len(candidates) THEN 0
  ELSE (IF n \in rejected THEN 0
        ELSE CountCountry(searchByName(candidates[n].name), code))
       + countryCountsOn(candidates, rejected, n + 1, code)

detectCountriesOn(candidates, rejected) ==
  LET found == {r.country : r \in cities}
      entries == {[code |-> c, count |-> countryCountsOn(candidates, rejected, 1, c)] :
                    c \in {x \in found : countryCountsOn(candidates, rejected, 1, x) > 0}}
  IN  FirstN(SortEntries(entries), 10)

\* a variant of matchCandidatesOn that stops at the first rejected lookup
RECURSIVE matchCandidatesOn_aborts(_, _, _, _, _)
matchCandidatesOn_aborts(candidates, rejected, n, useCountryDataOnly, filterCountries) ==
  IF n > Len(candidates) \/ n \in rejected THEN <<>>
  ELSE FirstN(findMatches(candidates[n], useCountryDataOnly, filterCountries), 1)
       \o matchCandidatesOn_aborts(candidates, rejected, n + 1, useCountryDataOnly,
                                   filterCountries)

\* matchCandidates when the store rejects the search for the candidates at
\* the positions `rejected`: findMatches throws and the catch of the loop
\* (lines 378-380) goes on with the next candidate
RECURSIVE matchCandidatesOn(_, _, _, _, _)
matchCandidatesOn(candidates, rejected, n, useCountryDataOnly, filterCountries) ==
  IF n > Len(candidates) THEN <<>>
  ELSE (IF n \in rejected THEN <<>>
        ELSE FirstN(findMatches(candidates[n], useCountryDataOnly, filterCountries), 1))
       \o matchCandidatesOn(candidates, rejected, n + 1, useCountryDataOnly,
                            filterCountries)

\* geocodeText with detectionOnly = true while the store rejects the search
\* for one candidate
Text_detectRejected ==
  /\ UNCHANGED mapVars
  /\ Unused
  /\ \E k \in 1..Len(candidatesOf(currentPageText)) :
       ret' = [op |-> "detect, one search rejected", rejected |-> k,
               value |-> detectCountriesOn(candidatesOf(currentPageText), {k})]
  /\ UNCHANGED <<storeVars, orchVars, initVars, nops>>

\* geocodeText with detectionOnly = false while the store rejects the search
\* for one candidate
Text_geocodeTextRejected ==
  /\ UNCHANGED mapVars
  /\ Unused
  /\ \E k \in 1..Len(candidatesOf(currentPageText)),
        useCountryDataOnly \in BOOLEAN, filterCountries \in Selections :
       ret' = [op |-> "geocodeText, one search rejected", rejected |-> k,
               useCountryDataOnly |-> useCountryDataOnly,
               filterCountries |-> filterCountries,
               value |-> deduplicateBy(
                           matchCandidatesOn(candidatesOf(currentPageText), {k}, 1,
                                             useCountryDataOnly, filterCountries))]
  /\ UNCHANGED <<storeVars, orchVars, initVars, nops>>

\* a page text is at hand and the store holds a gazetteer
InitOfText ==
  /\ NoMap
  /\ \E g \in Gazetteers :
       /\ cities = g.cities
       /\ metadata = {[key |-> "citiesLoaded", count |-> Cardinality(g.cities)]}
       /\ countryData = g.countryData
       /\ downloadCache =
            {[countryCode |-> c,
              cityCount |-> Cardinality({r \in g.countryData : r.country = c})] :
               c \in {r.country : r \in g.countryData}}
  /\ isInitialized = TRUE
  /\ db = 1
  /\ handles = [h \in Calls |-> IF h = 1 THEN "ready" ELSE "none"]
  /\ calls = [c \in Calls |-> IF c = 1 THEN [NoCall EXCEPT !.pc = "returned"] ELSE NoCall]
  /\ ret = NoRet
  /\ nops = 0
  /\ currentPageText \in Texts
  /\ currentPageUrl = "u1"
  /\ selectedCountries = <<>>
  /\ reqs = [r \in ReqIds |-> NoReq]
  /\ trace = [r \in ReqIds |-> <<>>]
  /\ resp = [r \in ReqIds |-> "none"]

NextOfText ==
  \/ Text_extractCandidates
  \/ Text_extractCapitalizedWords
  \/ Text_detect
  \/ Text_findMatches
  \/ Text_geocodeText
  \/ Text_normalizeText

SpecText == InitOfText /\ [][NextOfText]_vars

\* matching applied to the candidates of a text, with and without a search
\* that the store rejects
NextOfMatching ==
  \/ Text_matchCandidates
  \/ Text_detectRejected
  \/ Text_geocodeTextRejected

SpecMatching == InitOfText /\ [][NextOfMatching]_vars

\* the mentions of a text: the names of the capitalized-word matches that
\* are no stop word and no false positive, one per occurrence
RECURSIVE MentionsFrom(_, _)
MentionsFrom(text, pos) ==
  IF pos > Len(text) THEN <<>>
  ELSE LET m == Pattern2At(text, pos)
       IN  IF ~m.ok THEN MentionsFrom(text, pos + 1)
           ELSE (IF ToLowerCase(m.g1) \in STOP_WORDS \/ m.g1 \in falsePositives
                   THEN <<>> ELSE <<m.g1>>)
                \o MentionsFrom(text, m.end + 1)

\* the number of mentions that the global partition resolves to a country
MentionCount(text, code) ==
  LET mentions == MentionsFrom(text, 1)
  IN  Cardinality({n \in 1..Len(mentions) :
                     \E r \in cities : r.ascii = ToLowerCase(mentions[n])
                                       /\ r.country = code})

\* C13: the count of a detected country is the number of mentions in the
\* text that resolve to that country; a text that names a city of France
\* three times and a city of Japan once yields FR with 3, then JP with 1.
C13_CountsAreMentions ==
  ret.op = "detect" =>
    /\ \A n \in 1..Len(ret.value) :
         ret.value[n].count = MentionCount(currentPageText, ret.value[n].code)
    /\ (currentPageText = ThreeAndOne /\ cities = SeqToSet(cities15000))
       => ret.value = << [code |-> FR, count |-> 3], [code |-> JP, count |-> 1] >>

\* the number of pairs of a candidate of the text and a record the global
\* partition returns for its name, with the given country code
PairCount(text, code) ==
  LET candidates == allCandidates(text)
  IN  Cardinality({pair \in (1..Len(candidates)) \X cities :
                     /\ pair[2].ascii = ToLowerCase(candidates[pair[1]].name)
                     /\ pair[2].country = code})

\* C14: detection returns at most 10 entries with distinct codes, ordered by
\* non-increasing count and, among equal counts, by ascending code; they are
\* the first 10 of all countries so ordered, and the count of an entry is
\* the number of (candidate, global record) pairs with that code.
C14_TopTenOrdered ==
  ret.op = "detect" =>
    LET list == ret.value
        codes == {list[n].code : n \in 1..Len(list)}
        others == {c \in {r.country : r \in cities} \ codes :
                     PairCount(currentPageText, c) > 0}
    IN  /\ Len(list) <= 10
        /\ Cardinality(codes) = Len(list)
        /\ \A n \in 1..Len(list) :
             /\ list[n].count = PairCount(currentPageText, list[n].code)
             /\ list[n].count > 0
        /\ \A n \in 1..(Len(list) - 1) :
             \/ list[n].count > list[n + 1].count
             \/ /\ list[n].count = list[n + 1].count
                /\ CodeBefore(list[n].code, list[n + 1].code)
        /\ others # {} => Len(list) = 10
        /\ \A c \in others :
             \/ list[Len(list)].count > PairCount(currentPageText, c)
             \/ /\ list[Len(list)].count = PairCount(currentPageText, c)
                /\ CodeBefore(list[Len(list)].code, c)

\* more than 10 countries have a place of the text, with different counts
\* and with equal ones, and detection has returned 10 of them
C14_Witness ==
  /\ ret.op = "detect"
  /\ Len(ret.value) = 10
  /\ Cardinality({c \in {r.country : r \in cities} :
                    PairCount(currentPageText, c) > 0}) > 10
  /\ \E n, m \in 1..Len(ret.value) :
       n # m /\ ret.value[n].count = ret.value[m].count
  /\ \E n, m \in 1..Len(ret.value) : ret.value[n].count > ret.value[m].count

\* the records the store returns for the name of the candidate of ret, in
\* the order of the store, restricted to the allowed countries if there are any
Searched ==
  LET found == IF ret.useCountryDataOnly THEN searchCountryData(ret.candidate.name)
               ELSE searchAllSources(ret.candidate.name)
      allowed == {ret.filterCountries[n] : n \in 1..Len(ret.filterCountries)}
      isAllowed(r) == r.country \in allowed
  IN  IF allowed = {} THEN found ELSE SelectSeq(found, isAllowed)

Qualifies(r) ==
  LET q == ToLowerCase(ret.candidate.qualifier)
  IN  \/ q = ToLowerCase(r.country)
      \/ r.country \in DOMAIN COUNTRY_NAMES /\ q = ToLowerCase(COUNTRY_NAMES[r.country])
      \/ q = ToLowerCase(r.admin1)

\* C16: for a candidate with a qualifier findMatches returns exactly the
\* records of the search result (restricted to the allowed countries) whose
\* country code, country name or admin1 code is the qualifier up to case, in
\* the order of the result; it returns nothing when no record is.
C16_QualifierSelects ==
  (ret.op = "findMatches" /\ ret.candidate.qualifier # <<>>) =>
    ret.value = SelectSeq(Searched, Qualifies)

\* the search returned records of two countries, and the qualifier selected
\* the one it names by its admin1 code or by its country name
C16_Witness ==
  /\ ret.op = "findMatches"
  /\ ret.candidate.qualifier # <<>>
  /\ ret.value # <<>>
  /\ Len(ret.value) < Len(Searched)
  /\ \E n \in 1..Len(ret.value) :
       ToLowerCase(ret.value[n].country) # ToLowerCase(ret.candidate.qualifier)

\* C17: extractCapitalizedWords never returns two candidates whose names
\* are equal once normalized (lower case, white space collapsed, trimmed),
\* whatever the white space between the words of a name.
C17_NoNormalizedDuplicates ==
  ret.op = "extractCapitalizedWords" =>
    \A n, m \in 1..Len(ret.value) :
      n # m => normalizeText(ret.value[n].name) # normalizeText(ret.value[m].name)

\* the names the capitalized-word pattern matches in a text, one per match
RECURSIVE CapitalizedMatches(_, _)
CapitalizedMatches(text, pos) ==
  IF pos > Len(text) THEN <<>>
  ELSE LET m == Pattern2At(text, pos)
       IN  IF ~m.ok THEN CapitalizedMatches(text, pos + 1)
           ELSE <<m.g1>> \o CapitalizedMatches(text, m.end + 1)

\* C18: no candidate of extractCandidates has a name that is a stop word
\* whatever its case, and no candidate of extractCapitalizedWords has a name
\* that is a stop word or, as written, a member of the false-positive list.
C18_NoStopWordNames ==
  /\ ret.op = "extractCandidates" =>
       \A n \in 1..Len(ret.value) : ToLowerCase(ret.value[n].name) \notin STOP_WORDS
  /\ ret.op = "extractCapitalizedWords" =>
       \A n \in 1..Len(ret.value) :
         /\ ToLowerCase(ret.value[n].name) \notin STOP_WORDS
         /\ ret.value[n].name \notin falsePositives

\* the text has capitalized words that are a stop word written with a
\* capital and a false positive, next to names that are neither, which were
\* returned, and a "City, Qualifier" match whose city is a stop word
C18_Witness ==
  LET matched == CapitalizedMatches(currentPageText, 1)
      names == {matched[n] : n \in 1..Len(matched)}
  IN  /\ ret.op = "extractCapitalizedWords"
      /\ ret.value # <<>>
      /\ \E w \in names : ToLowerCase(w) \in STOP_WORDS /\ w \notin STOP_WORDS
      /\ \E w \in names : w \in falsePositives
      /\ extractCandidates(currentPageText) # <<>>
      /\ Len(extractCandidates(currentPageText))
           < Len(SelectSeq(currentPageText, LAMBDA c : c = ","))

\* per candidate of the text, pattern 1 first: the record matchCandidates
\* selects for it (the first of findMatches), <<>> when there is none
Selected ==
  LET candidates == extractCandidates(currentPageText)
                      \o extractCapitalizedWords(currentPageText)
  IN  [n \in 1..Len(candidates) |->
         FirstN(findMatches(candidates[n], ret.useCountryDataOnly,
                            ret.filterCountries), 1)]

\* the first candidate for which the record of the given id is selected
FirstOf(id) ==
  CHOOSE n \in 1..Len(Selected) :
    /\ Selected[n] # <<>> /\ Selected[n][1].geonameId = id
    /\ \A m \in 1..(n - 1) : Selected[m] = <<>> \/ Selected[m][1].geonameId # id

\* C19: the locations of a full scan hold no geonameId twice, hold the
\* record of every candidate that has one, and are in the order in which the
\* candidates (pattern 1, then pattern 2) first selected them.
C19_LocationsDeduplicated ==
  ret.op = "geocodeText" =>
    LET list == ret.value
        matched == {Selected[n][1].geonameId :
                      n \in {m \in 1..Len(Selected) : Selected[m] # <<>>}}
    IN  /\ \A n, m \in 1..Len(list) : n # m => list[n].geonameId # list[m].geonameId
        /\ {list[n].geonameId : n \in 1..Len(list)} = matched
        /\ \A n \in 1..Len(list) : list[n] = Selected[FirstOf(list[n].geonameId)][1]
        /\ \A n \in 1..(Len(list) - 1) :
             FirstOf(list[n].geonameId) < FirstOf(list[n + 1].geonameId)

\* a place is selected both for a "City, Qualifier" candidate and for a
\* capitalized word, another place for a later candidate, and the full scan
\* has returned the two
C19_Witness ==
  /\ ret.op = "geocodeText"
  /\ Len(ret.value) >= 2
  /\ \E n, m \in 1..Len(Selected) :
       /\ n < m
       /\ n <= Len(extractCandidates(currentPageText))
       /\ m > Len(extractCandidates(currentPageText))
       /\ Selected[n] # <<>> /\ Selected[m] = Selected[n]

\* a list without its k-th element
Without(list, k) == SubSeq(list, 1, k - 1) \o SubSeq(list, k + 1, Len(list))

\* C21: when the store rejects the lookup of one candidate, detection and
\* matching go on with the others: the result is the result for the
\* candidate list without that candidate.
C21_RejectedLookupSkipped ==
  LET others == Without(allCandidates(currentPageText), ret.rejected)
  IN  /\ ret.op = "detect, one search rejected" =>
           ret.value = detectCountriesFromCandidates(others)
      /\ ret.op = "geocodeText, one search rejected" =>
           ret.value = deduplicateBy(matchCandidates(others, ret.useCountryDataOnly,
                                                     ret.filterCountries))

\* the lookup of a candidate that has a match was rejected, a later
\* candidate was matched, and the result has the place of the later one
C21_Witness ==
  /\ ret.op = "geocodeText, one search rejected"
  /\ ret.value # <<>>
  /\ LET candidates == allCandidates(currentPageText)
     IN  /\ findMatches(candidates[ret.rejected], ret.useCountryDataOnly,
                        ret.filterCountries) # <<>>
         /\ \E n \in (ret.rejected + 1)..Len(candidates) :
              LET matches == findMatches(candidates[n], ret.useCountryDataOnly,
                                         ret.filterCountries)
              IN  matches # <<>> /\ matches[1] = ret.value[Len(ret.value)]

StoreOrder(name, useCountryDataOnly, filterCountries) ==
  LET global == IF useCountryDataOnly THEN {}
                ELSE {r \in cities : r.ascii = ToLowerCase(name)}
      country == {r \in countryData :
                    /\ r.ascii = ToLowerCase(name)
                    /\ \A g \in global : g.geonameId # r.geonameId}
      allowed == SeqToSet(filterCountries)
      isAllowed(r) == allowed = {} \/ r.country \in allowed
  IN  SelectSeq(SortById(global) \o SortById(country), isAllowed)

\* the records in store order that the qualifier names
Survivors(candidate, useCountryDataOnly, filterCountries) ==
  LET q == ToLowerCase(candidate.qualifier)
      named(r) ==
        \/ q = ToLowerCase(r.country)
        \/ r.country \in DOMAIN COUNTRY_NAMES /\ q = ToLowerCase(COUNTRY_NAMES[r.country])
        \/ q = ToLowerCase(r.admin1)
  IN  SelectSeq(StoreOrder(candidate.name, useCountryDataOnly, filterCountries), named)

\* C30: matchCandidates returns, in the order of the candidates, one Location
\* for each candidate for which findMatches returns a non-empty list, namely
\* the first element of that list, and nothing for the others, so it returns
\* no more Locations than there are candidates; for a candidate with a
\* qualifier the Location is the first in store order (global partition, then
\* country partition) of the records the qualifier names, whatever their
\* populations.
C30_FirstMatchPerCandidate ==
  ret.op = "matchCandidates" =>
    LET candidates == ret.candidates
        first(n) == FirstN(findMatches(candidates[n], ret.useCountryDataOnly,
                                       ret.filterCountries), 1)
        hits == {n \in 1..Len(candidates) : first(n) # <<>>}
    IN  /\ Len(ret.value) <= Len(candidates)
        /\ Len(ret.value) = Cardinality(hits)
        /\ \A n \in hits :
             LET k == Cardinality({m \in hits : m <= n})
             IN  /\ ret.value[k] = first(n)[1]
                 /\ candidates[n].qualifier # <<>> =>
                      ret.value[k] = Survivors(candidates[n], ret.useCountryDataOnly,
                                               ret.filterCountries)[1]
        /\ \A n \in 1..Len(candidates) :
             (/\ candidates[n].qualifier # <<>>
              /\ Survivors(candidates[n], ret.useCountryDataOnly,
                           ret.filterCountries) # <<>>) => n \in hits

\* a candidate with a qualifier had two surviving records, the first of the
\* global partition, the second of the country partition, more populous and
\* of a smaller geonameId, and the first one is the Location returned for it
C30_Witness ==
  /\ ret.op = "matchCandidates"
  /\ ret.value # <<>>
  /\ ret.candidates # <<>>
  /\ ret.candidates[1].qualifier # <<>>
  /\ LET survivors == Survivors(ret.candidates[1], ret.useCountryDataOnly,
                                ret.filterCountries)
     IN  /\ Len(survivors) > 1
         /\ ret.value[1] = survivors[1]
         /\ survivors[1] \in cities
         /\ survivors[2] \in countryData
         /\ survivors[2].pop > survivors[1].pop
         /\ survivors[2].geonameId < survivors[1].geonameId

(***************************************************************************)
(* The store used before it is open (database.js): a GeoNamesDB object has *)
(* been constructed and init() called; operations are invoked on it while  *)
(* the open request is pending and after it has succeeded.                 *)
(***************************************************************************)
\* an operation that returns a value
Returns(op, value) ==
  ret' = [op |-> op, isReady |-> dbIsReady, outcome |-> "value", value |-> value]

\* an operation that throws new Error('Database not initialized')
Throws(op) ==
  ret' = [op |-> op, isReady |-> dbIsReady, outcome |-> "error",
          error |-> "Database not initialized"]

\* request.onsuccess of init() (lines 24-29)
Call_initSucceeded ==
  /\ UNCHANGED mapVars
  /\ db # 0 /\ handles[db] = "opening"
  /\ handles' = [handles EXCEPT ![db] = "ready"]
  /\ UNCHANGED <<storeVars, orchVars, db, calls, queryVars>>

Call_loadCities ==
  /\ UNCHANGED mapVars
  /\ Operation
  /\ IF dbIsReady
       THEN \E list \in Bundles :
              IF loadCities_commits(list)
                THEN /\ cities' = loadCities_cities(list)
                     /\ metadata' = loadCities_metadata(list)
                     /\ Returns("loadCities", Len(list))
                ELSE /\ UNCHANGED <<cities, metadata>>
                     /\ ret' = [op |-> "loadCities", isReady |-> TRUE,
                                outcome |-> "error", error |-> "ConstraintError"]
       ELSE Throws("loadCities") /\ UNCHANGED <<cities, metadata>>
  /\ UNCHANGED <<countryData, downloadCache, orchVars, initVars>>

Call_loadCountryData ==
  /\ UNCHANGED mapVars
  /\ Operation
  /\ IF dbIsReady
       THEN \E countryCode \in Codes, list \in Lists :
              /\ countryData' = loadCountryData_countryData(countryCode, list)
              /\ downloadCache' = loadCountryData_downloadCache(countryCode, list)
              /\ Returns("loadCountryData", Len(list))
       ELSE Throws("loadCountryData") /\ UNCHANGED <<countryData, downloadCache>>
  /\ UNCHANGED <<cities, metadata, orchVars, initVars>>

Call_searchByName ==
  /\ UNCHANGED mapVars
  /\ Operation
  /\ IF dbIsReady
       THEN \E name \in Names : Returns("searchByName", searchByName(name))
       ELSE Throws("searchByName")
  /\ UNCHANGED <<storeVars, orchVars, initVars>>

Call_searchCountryData ==
  /\ UNCHANGED mapVars
  /\ Operation
  /\ IF dbIsReady
       THEN \E name \in Names : Returns("searchCountryData", searchCountryData(name))
       ELSE Throws("searchCountryData")
  /\ UNCHANGED <<storeVars, orchVars, initVars>>

\* searchAllSources awaits both searches (lines 343-346): it fails as they do
Call_searchAllSources ==
  /\ UNCHANGED mapVars
  /\ Operation
  /\ IF dbIsReady
       THEN \E name \in Names : Returns("searchAllSources", searchAllSources(name))
       ELSE Throws("searchAllSources")
  /\ UNCHANGED <<storeVars, orchVars, initVars>>

\* line 132: false on an object that is not ready
Call_isCitiesLoaded ==
  /\ UNCHANGED mapVars
  /\ Operation
  /\ Returns("isCitiesLoaded", IF dbIsReady THEN isCitiesLoaded ELSE FALSE)
  /\ UNCHANGED <<storeVars, orchVars, initVars>>

\* line 153: 0 on an object that is not ready
Call_getCitiesCount ==
  /\ UNCHANGED mapVars
  /\ Operation
  /\ Returns("getCitiesCount", IF dbIsReady THEN Cardinality(cities) ELSE 0)
  /\ UNCHANGED <<storeVars, orchVars, initVars>>

\* line 367: false on an object that is not ready
Call_isCountryDownloaded ==
  /\ UNCHANGED mapVars
  /\ Operation
  /\ \E countryCode \in Codes :
       Returns("isCountryDownloaded", isCountryDownloaded(countryCode))
  /\ UNCHANGED <<storeVars, orchVars, initVars>>

\* line 419: the empty list on an object that is not ready
Call_getDownloadedCountries ==
  /\ UNCHANGED mapVars
  /\ Operation
  /\ Returns("getDownloadedCountries", IF dbIsReady THEN downloadCache ELSE {})
  /\ UNCHANGED <<storeVars, orchVars, initVars>>

\* line 461: 0 on an object that is not ready
Call_getCountryDataCount ==
  /\ UNCHANGED mapVars
  /\ Operation
  /\ Returns("getCountryDataCount", IF dbIsReady THEN Cardinality(countryData) ELSE 0)
  /\ UNCHANGED <<storeVars, orchVars, initVars>>

\* a new object whose open request is pending, over the database as earlier
\* sessions left it
InitOfCalls ==
  /\ NoMap
  /\ \E list \in {<<>>, cities15000} :
       /\ cities = SeqToSet(list)
       /\ metadata = IF list = <<>> THEN {}
                     ELSE {[key |-> "citiesLoaded", count |-> Len(list)]}
  /\ \E earlier \in Earlier :
       /\ countryData =
            UNION {SeqToSet(GeoNamesDump(c)) : c \in {x \in Codes : earlier[x] = "places"}}
       /\ downloadCache =
            {[countryCode |-> c, cityCount |-> Len(GeoNamesDump(c))] :
               c \in {x \in Codes : earlier[x] = "places"}}
  /\ isInitialized = FALSE
  /\ db = 1
  /\ handles = [h \in Calls |-> IF h = 1 THEN "opening" ELSE "none"]
  /\ calls = [c \in Calls |-> NoCall]
  /\ ret = NoRet
  /\ nops = 0
  /\ currentPageText = <<>>
  /\ currentPageUrl = "null"
  /\ selectedCountries = <<>>
  /\ reqs = [r \in ReqIds |-> NoReq]
  /\ trace = [r \in ReqIds |-> <<>>]
  /\ resp = [r \in ReqIds |-> "none"]

NextOfCalls ==
  \/ Call_initSucceeded
  \/ Call_loadCities
  \/ Call_loadCountryData
  \/ Call_searchByName
  \/ Call_searchCountryData
  \/ Call_searchAllSources
  \/ Call_isCitiesLoaded
  \/ Call_getCitiesCount
  \/ Call_isCountryDownloaded
  \/ Call_getDownloadedCountries
  \/ Call_getCountryDataCount

SpecCalls == InitOfCalls /\ [][NextOfCalls]_vars

\* C20: an operation of GeoNamesDB invoked while the object is not ready
\* fails with the error 'Database not initialized'; it returns no value.
C20_UnreadyFails ==
  (ret.op # "none" /\ ~ret.isReady) =>
    /\ ret.outcome = "error"
    /\ ret.error = "Database not initialized"

(***************************************************************************)
(* The message plumbing (message.js): the listener that addMessageListener *)
(* installs, around any handler, and sendToSidePanel.                      *)
(***************************************************************************)
\* what a handler's own code ends with: a returned value or a thrown Error
Results == {"pong", "results"}
Errors == {"Database not initialized"}

\* what the runtime does with one sendToSidePanel: chrome.windows.getAll
\* rejects, chrome.runtime.sendMessage rejects (no side panel is listening),
\* or the side panel receives the event
Deliveries == {"getAllRejected", "sendMessageRejected", "delivered"}

\* a variant of sendToSidePanel without its try/catch
sendToSidePanel_uncaught(delivery) ==
  IF delivery = "delivered" THEN "fulfilled" ELSE "rejected"

\* sendToSidePanel: the outer catch takes the rejection of getAll, the inner
\* one that of sendMessage; the promise it returns is fulfilled
sendToSidePanel(delivery) ==
  IF delivery = "getAllRejected" THEN "fulfilled"
  ELSE IF delivery = "sendMessageRejected" THEN "fulfilled"
  ELSE "fulfilled"

NoMessage == [pc |-> "none", own |-> "none", value |-> "none"]

\* the listener is called with a message: it starts the async function that
\* awaits handler(message, sender) and returns true
Message_receive(r) ==
  /\ UNCHANGED mapVars
  /\ reqs[r].pc = "none"
  /\ \/ \E v \in Results :
          reqs' = [reqs EXCEPT ![r] = [pc |-> "handler", own |-> "returns", value |-> v]]
     \/ \E v \in Errors :
          reqs' = [reqs EXCEPT ![r] = [pc |-> "handler", own |-> "throws", value |-> v]]
  /\ UNCHANGED <<storeVars, isInitialized, currentPageText, currentPageUrl,
                 selectedCountries, trace, resp, initVars, queryVars>>

\* the handler awaits sendToSidePanel(event)
Message_sendToSidePanel(r) ==
  /\ UNCHANGED mapVars
  /\ reqs[r].pc = "handler"
  /\ nops < MaxSends
  /\ nops' = nops + 1
  /\ \E delivery \in Deliveries :
       /\ trace' = [trace EXCEPT ![r] = Append(@, [type |-> "event", delivery |-> delivery])]
       /\ ret' = [op |-> "sendToSidePanel", id |-> r, delivery |-> delivery,
                  promise |-> sendToSidePanel(delivery)]
       /\ reqs' = IF sendToSidePanel(delivery) = "rejected"
                    THEN [reqs EXCEPT ![r].pc = "threw", ![r].value = delivery]
                    ELSE reqs
  /\ UNCHANGED <<storeVars, isInitialized, currentPageText, currentPageUrl,
                 selectedCountries, resp, initVars>>

\* the handler returns its value
Message_returned(r) ==
  /\ UNCHANGED mapVars
  /\ reqs[r].pc = "handler"
  /\ reqs[r].own = "returns"
  /\ reqs' = [reqs EXCEPT ![r].pc = "returned"]
  /\ UNCHANGED <<storeVars, isInitialized, currentPageText, currentPageUrl,
                 selectedCountries, trace, resp, initVars, queryVars>>

\* the handler throws its Error
Message_threw(r) ==
  /\ UNCHANGED mapVars
  /\ reqs[r].pc = "handler"
  /\ reqs[r].own = "throws"
  /\ reqs' = [reqs EXCEPT ![r].pc = "threw"]
  /\ UNCHANGED <<storeVars, isInitialized, currentPageText, currentPageUrl,
                 selectedCountries, trace, resp, initVars, queryVars>>

\* sendResponse({ success: true, data: result }) after the await, or
\* sendResponse({ success: false, error: error.message }) in the catch
Message_sendResponse(r) ==
  /\ UNCHANGED mapVars
  /\ reqs[r].pc \in {"returned", "threw"}
  /\ reqs' = [reqs EXCEPT ![r].pc = "done"]
  /\ IF reqs[r].pc = "returned"
       THEN /\ resp' = [resp EXCEPT ![r] = "success"]
            /\ ret' = [op |-> "sendResponse", id |-> r, success |-> TRUE,
                       data |-> reqs[r].value]
       ELSE /\ resp' = [resp EXCEPT ![r] = "failure"]
            /\ ret' = [op |-> "sendResponse", id |-> r, success |-> FALSE,
                       error |-> reqs[r].value]
  /\ UNCHANGED <<storeVars, isInitialized, currentPageText, currentPageUrl,
                 selectedCountries, trace, initVars, nops>>

InitOfMessages ==
  /\ NoMap
  /\ cities = SeqToSet(cities15000)
  /\ metadata = {[key |-> "citiesLoaded", count |-> Len(cities15000)]}
  /\ countryData = {}
  /\ downloadCache = {}
  /\ isInitialized = TRUE
  /\ db = 1
  /\ handles = [h \in Calls |-> IF h = 1 THEN "ready" ELSE "none"]
  /\ calls = [c \in Calls |-> IF c = 1 THEN [NoCall EXCEPT !.pc = "returned"] ELSE NoCall]
  /\ ret = NoRet
  /\ nops = 0
  /\ currentPageText = <<>>
  /\ currentPageUrl = "null"
  /\ selectedCountries = <<>>
  /\ reqs = [r \in ReqIds |-> NoMessage]
  /\ trace = [r \in ReqIds |-> <<>>]
  /\ resp = [r \in ReqIds |-> "none"]

NextOfMessages ==
  \/ \E r \in ReqIds : Message_receive(r)
  \/ \E r \in ReqIds : Message_sendToSidePanel(r)
  \/ \E r \in ReqIds : Message_returned(r)
  \/ \E r \in ReqIds : Message_threw(r)
  \/ \E r \in ReqIds : Message_sendResponse(r)

SpecMessages == InitOfMessages /\ [][NextOfMessages]_vars

\* C34: a message is answered once, after its handler has settled and not
\* again: with {success: true, data: result} when the handler's code returns
\* result and with {success: false, error: message} when it throws; no
\* sendToSidePanel makes a handler throw, whatever became of the delivery.
C34_OneResponse ==
  [][\A r \in ReqIds :
       /\ resp[r] # "none" => resp'[r] = resp[r] /\ reqs'[r] = reqs[r]
       /\ resp'[r] # "none" <=> reqs'[r].pc = "done"
       /\ (resp[r] = "none" /\ resp'[r] # "none") =>
            /\ reqs[r].pc \in {"returned", "threw"}
            /\ ret' = IF reqs[r].own = "returns"
                        THEN [op |-> "sendResponse", id |-> r, success |-> TRUE,
                              data |-> reqs[r].value]
                        ELSE [op |-> "sendResponse", id |-> r, success |-> FALSE,
                              error |-> reqs[r].value]
            /\ resp'[r] = IF reqs[r].own = "returns" THEN "success" ELSE "failure"
       /\ (reqs[r].pc = "handler" /\ reqs'[r].pc = "threw") =>
            /\ reqs[r].own = "throws"
            /\ trace'[r] = trace[r]]_vars

\* a handler whose two events were not delivered, one for each kind of
\* failure, was answered with success, and a handler that threw with failure
C34_Witness ==
  \E r, q \in ReqIds :
    /\ resp[r] = "success"
    /\ \E n \in 1..Len(trace[r]) : trace[r][n].delivery = "getAllRejected"
    /\ \E n \in 1..Len(trace[r]) : trace[r][n].delivery = "sendMessageRejected"
    /\ resp[q] = "failure"
    /\ reqs[q].own = "throws"

(***************************************************************************)
(* The side panel and its map iframe (sidepanel.js, map.js): switchView,   *)
(* the two message listeners and the postMessage events between them.      *)
(***************************************************************************)
Switches == 1..MaxSwitches

\* a postMessage event is handled by the listener of the window it was posted
\* to: what is posted before map.js has run in the iframe reaches no listener
Posted(queue, type) ==
  IF mapPage.stage = "blank" THEN queue ELSE Append(queue, type)

PanelSent(type) == [at |-> "panel", did |-> "sent", type |-> type]
PanelReceived(type) == [at |-> "panel", did |-> "received", type |-> type]

\* switchView('map') from "Initialize map if not already initialized" on
\* (lines 828-851): INIT_MAP, or DISPLAY_LOCATIONS when there are locations
InitOrDisplay(s) ==
  /\ switches' = [switches EXCEPT ![s] = "done"]
  /\ panel' = [panel EXCEPT !.currentView = "map"]
  /\ IF ~panel.mapInitialized
       THEN /\ toMap' = Posted(toMap, "INIT_MAP")
            /\ mapLog' = Append(mapLog, PanelSent("INIT_MAP"))
       ELSE IF panel.currentLocations # <<>>
              THEN /\ toMap' = Posted(toMap, "DISPLAY_LOCATIONS")
                   /\ mapLog' = Append(mapLog, PanelSent("DISPLAY_LOCATIONS"))
              ELSE UNCHANGED <<toMap, mapLog>>
  /\ UNCHANGED <<mapPage, toParent>>

\* a click on a toggle button or on the retry button: switchView(view) up to
\* its await, or to its end when it does not wait for the iframe
Panel_switchView(s) ==
  /\ switches[s] = "none"
  /\ \A t \in Switches : t < s => switches[t] # "none"
  /\ \E view \in {"list", "map"} :
       IF view = "list"
         THEN /\ panel' = [panel EXCEPT !.currentView = "list"]
              /\ switches' = [switches EXCEPT ![s] = "done"]
              /\ UNCHANGED <<mapPage, toMap, toParent, mapLog>>
         ELSE IF panel.src = ""
                THEN /\ panel' = [panel EXCEPT !.mapIframeLoaded = FALSE,
                                               !.src = "map.html"]
                     /\ switches' = [switches EXCEPT ![s] = "waiting"]
                     /\ UNCHANGED <<mapPage, toMap, toParent, mapLog>>
                ELSE InitOrDisplay(s)
  /\ UNCHANGED <<storeVars, orchVars, initVars, queryVars>>

\* the interval of the waiting call finds mapIframeLoaded set
Panel_iframeLoaded(s) ==
  /\ switches[s] = "waiting"
  /\ panel.mapIframeLoaded
  /\ InitOrDisplay(s)
  /\ UNCHANGED <<storeVars, orchVars, initVars, queryVars>>

\* 50 attempts have passed without it: the call rejects
Panel_iframeTimeout(s) ==
  /\ switches[s] = "waiting"
  /\ ~panel.mapIframeLoaded
  /\ switches' = [switches EXCEPT ![s] = "rejected"]
  /\ UNCHANGED <<panel, mapPage, toMap, toParent, mapLog>>
  /\ UNCHANGED <<storeVars, orchVars, initVars, queryVars>>

\* handleResults: a GEOCODE_RESULTS event arrives from the background script
Panel_handleResults ==
  /\ \E locations \in {<<>>, <<PaFR>>} :
       /\ locations # panel.currentLocations
       /\ panel' = [panel EXCEPT !.currentLocations = locations]
  /\ UNCHANGED <<mapPage, toMap, toParent, switches, mapLog>>
  /\ UNCHANGED <<storeVars, orchVars, initVars, queryVars>>

\* the listener of setupMapMessageListener handles an event of the iframe
Panel_onMessage ==
  /\ toParent # <<>>
  /\ toParent' = Tail(toParent)
  /\ LET type == Head(toParent)
     IN  /\ panel' =
              IF type = "MAP_PAGE_LOADED" THEN [panel EXCEPT !.mapIframeLoaded = TRUE]
              ELSE IF type = "MAP_READY" THEN [panel EXCEPT !.mapInitialized = TRUE]
              ELSE IF type = "MAP_ERROR" THEN [panel EXCEPT !.mapInitialized = FALSE]
              ELSE panel
         /\ IF type = "MAP_READY" /\ panel.currentLocations # <<>>
              THEN /\ toMap' = Posted(toMap, "DISPLAY_LOCATIONS")
                   /\ mapLog' = mapLog \o <<PanelReceived(type),
                                            PanelSent("DISPLAY_LOCATIONS")>>
              ELSE /\ toMap' = toMap
                   /\ mapLog' = Append(mapLog, PanelReceived(type))
  /\ UNCHANGED <<mapPage, switches>>
  /\ UNCHANGED <<storeVars, orchVars, initVars, queryVars>>

\* the iframe has navigated to map.html and its scripts have run: the
\* listeners of map.js are installed, Leaflet is defined or failed to load
Map_script ==
  /\ panel.src = "map.html"
  /\ mapPage.stage = "blank"
  /\ \E leaflet \in BOOLEAN :
       mapPage' = [mapPage EXCEPT !.stage = "listening", !.L = leaflet]
  /\ UNCHANGED <<panel, toMap, toParent, switches, mapLog>>
  /\ UNCHANGED <<storeVars, orchVars, initVars, queryVars>>

\* the load event of the map page
Map_load ==
  /\ mapPage.stage = "listening"
  /\ mapPage' = [mapPage EXCEPT !.stage = "loaded"]
  /\ toParent' = Append(toParent, IF mapPage.L THEN "MAP_PAGE_LOADED" ELSE "MAP_ERROR")
  /\ UNCHANGED <<panel, toMap, switches, mapLog>>
  /\ UNCHANGED <<storeVars, orchVars, initVars, queryVars>>

\* initMap: throws when Leaflet is undefined, and in L.map('map') when the
\* container already holds a map; the catch posts MAP_ERROR
initMap_throws == ~mapPage.L \/ mapPage.map

\* the message listener of map.js handles an event of the side panel
Map_onMessage ==
  /\ mapPage.stage # "blank"
  /\ toMap # <<>>
  /\ toMap' = Tail(toMap)
  /\ mapLog' = Append(mapLog, [at |-> "map", did |-> "received",
                               type |-> Head(toMap), map |-> mapPage.map])
  /\ IF Head(toMap) = "INIT_MAP"
       THEN IF initMap_throws
              THEN /\ toParent' = Append(toParent, "MAP_ERROR")
                   /\ mapPage' = mapPage
              ELSE /\ toParent' = Append(toParent, "MAP_READY")
                   /\ mapPage' = [mapPage EXCEPT !.map = TRUE, !.isInitialized = TRUE]
       ELSE /\ toParent' = IF mapPage.map THEN Append(toParent, "LOCATIONS_DISPLAYED")
                           ELSE toParent
            /\ mapPage' = mapPage
  /\ UNCHANGED <<panel, switches>>
  /\ UNCHANGED <<storeVars, orchVars, initVars, queryVars>>

\* the side panel has been opened by an initialized background script
InitOfMap == InitOfStore

NextOfMap ==
  \/ \E s \in Switches : Panel_switchView(s)
  \/ \E s \in Switches : Panel_iframeLoaded(s)
  \/ \E s \in Switches : Panel_iframeTimeout(s)
  \/ Panel_handleResults
  \/ Panel_onMessage
  \/ Map_script
  \/ Map_load
  \/ Map_onMessage

SpecMap == InitOfMap /\ [][NextOfMap]_vars

PanelAt(n, did, type) ==
  /\ mapLog[n].at = "panel"
  /\ mapLog[n].did = did
  /\ mapLog[n].type = type

MapReceived(n, type) ==
  /\ mapLog[n].at = "map"
  /\ mapLog[n].type = type

\* DISPLAY_LOCATIONS is sent after a MAP_READY was received and no MAP_ERROR
\* since
DisplayAfterReady ==
  \A n \in 1..Len(mapLog) : PanelAt(n, "sent", "DISPLAY_LOCATIONS") =>
    \E m \in 1..(n - 1) :
      /\ PanelAt(m, "received", "MAP_READY")
      /\ \A k \in (m + 1)..(n - 1) : ~PanelAt(k, "received", "MAP_ERROR")

\* between two INIT_MAP sent a MAP_ERROR was received
InitOncePerError ==
  \A m, n \in 1..Len(mapLog) :
    (m < n /\ PanelAt(m, "sent", "INIT_MAP") /\ PanelAt(n, "sent", "INIT_MAP")) =>
      \E k \in (m + 1)..(n - 1) : PanelAt(k, "received", "MAP_ERROR")

\* the map page handles INIT_MAP while it holds no map, and
\* DISPLAY_LOCATIONS while it holds one
MapAskedInOrder ==
  \A n \in 1..Len(mapLog) :
    /\ MapReceived(n, "INIT_MAP") => ~mapLog[n].map
    /\ MapReceived(n, "DISPLAY_LOCATIONS") => mapLog[n].map

\* C35: DISPLAY_LOCATIONS is sent to the map only after MAP_READY was
\* received and no MAP_ERROR since, INIT_MAP is sent again only after a
\* MAP_ERROR was received, and the map page is neither asked to initialize a
\* map it holds nor to display locations before it holds one.
C35_MapHandshake ==
  /\ DisplayAfterReady
  /\ InitOncePerError
  /\ MapAskedInOrder

====
